---- MODULE Spec2Model ----
(***************************************************************************)
(* A model of django_fastly: the purge orchestration (utils.py), the CDN   *)
(* client (api.py), the admin actions (admin.py) and the management        *)
(* command fastly_update_vcl.                                              *)
(*                                                                         *)
(* Text is modelled as a sequence of character codes, so that sorting,     *)
(* splitting and stripping are computed rather than assumed.               *)
(* A provider answer is a record [raised, status]: raised = TRUE is a      *)
(* transport failure or timeout of the requests call (no response object   *)
(* exists), otherwise status is the HTTP status of the response.           *)
(* Writes to the PurgeLog table are taken to succeed.                      *)
(***************************************************************************)
EXTENDS Integers, Sequences, FiniteSets, TLC

VARIABLES
    config,     \* the FastlyConfig singleton row (pk=1)
    ledger,     \* the PurgeLog table, in insertion order
    service,    \* the provider's view of the service: versions and snippets
    kind,       \* per process: the entry point it is running, or "idle"
    pc,         \* per process: position inside that entry point
    cfg,        \* per process: the config object read by get_solo() at the start
    arg,        \* per process: the arguments of the entry point
    loc,        \* per process: local variables of the entry point
    trace,      \* per process: events of the running operation, in order
    result      \* per process: how the operation ended

vars == <<config, ledger, service, kind, pc, cfg, arg, loc, trace, result>>

----------------------------------------------------------------------------
(* Bounds *)

\* operations start only while the ledger holds fewer entries than this
MaxBacklog == 1
\* the provider hands out version numbers up to this one
MaxVersion == 3

----------------------------------------------------------------------------
(* Text *)

Star == <<42>>
Colon == <<58>>
Slash == <<47>>
LabelBlogPost == <<98, 108, 111, 103, 46, 112, 111, 115, 116>>
SlugWord == <<115, 108, 117, 103>>

\* str.splitlines() line boundaries and str.strip() whitespace (ASCII part)
LineBreaks == {10, 11, 12, 13, 28, 29, 30}
Whitespace == {9, 10, 11, 12, 13, 28, 29, 30, 31, 32}

RECURSIVE Digits(_)
Digits(n) == IF n < 10 THEN <<48 + n>> ELSE Digits(n \div 10) \o <<48 + (n % 10)>>

RECURSIVE LexLess(_, _)
LexLess(a, b) ==
    IF a = <<>> THEN b # <<>>
    ELSE IF b = <<>> THEN FALSE
    ELSE IF Head(a) # Head(b) THEN Head(a) < Head(b)
    ELSE LexLess(Tail(a), Tail(b))

RECURSIVE Sorted(_)
Sorted(S) ==
    IF S = {} THEN <<>>
    ELSE LET m == CHOOSE x \in S : \A y \in S \ {x} : LexLess(x, y)
         IN <<m>> \o Sorted(S \ {m})

RECURSIVE LStrip(_)
LStrip(s) == IF s # <<>> /\ Head(s) \in Whitespace THEN LStrip(Tail(s)) ELSE s

RECURSIVE RStrip(_)
RStrip(s) ==
    IF s # <<>> /\ s[Len(s)] \in Whitespace THEN RStrip(SubSeq(s, 1, Len(s) - 1)) ELSE s

Strip(s) == RStrip(LStrip(s))

\* str.splitlines(): "\r\n" is one boundary; no empty last line after a
\* trailing boundary
RECURSIVE SplitLinesFrom(_, _)
SplitLinesFrom(s, cur) ==
    IF s = <<>> THEN (IF cur = <<>> THEN <<>> ELSE <<cur>>)
    ELSE IF Head(s) \in LineBreaks
         THEN LET rest == IF Head(s) = 13 /\ Len(s) > 1 /\ s[2] = 10
                          THEN Tail(Tail(s)) ELSE Tail(s)
              IN <<cur>> \o SplitLinesFrom(rest, <<>>)
         ELSE SplitLinesFrom(Tail(s), Append(cur, Head(s)))

SplitLines(s) == SplitLinesFrom(s, <<>>)

Range(s) == {s[i] : i \in 1..Len(s)}

----------------------------------------------------------------------------
(* utils.build_surrogate_keys_for_instance *)

\* the lines of a text, stripped, blank ones dropped, in the text's order
StrippedLines(text) ==
    LET lines == SplitLines(text)
        stripped == [i \in 1..Len(lines) |-> Strip(lines[i])]
    IN SelectSeq(stripped, LAMBDA l : l # <<>>)

\* the candidate keys in the order the function meets them
CandidateKeys(instance, c) ==
    LET label == instance.label
    IN <<label>>
       \o (IF instance.pk # 0 THEN <<label \o Colon \o Digits(instance.pk)>> ELSE <<>>)
       \o (IF instance.slug # <<>>
           THEN <<label \o Colon \o SlugWord \o Colon \o instance.slug>> ELSE <<>>)
       \o StrippedLines(c.always_purged_keys)

\* a sequence without its repeated elements, first occurrences kept
RECURSIVE Dedup(_)
Dedup(s) ==
    IF s = <<>> THEN <<>>
    ELSE LET init == Dedup(SubSeq(s, 1, Len(s) - 1))
         IN IF s[Len(s)] \in Range(init) THEN init ELSE Append(init, s[Len(s)])

\* a derivation that returns the keys in the order met, without sorted()
BuildSurrogateKeysInOrder(instance, c) == Dedup(CandidateKeys(instance, c))

\* a derivation that collects the keys in a list instead of a set
BuildSurrogateKeysAsList(instance, c) == CandidateKeys(instance, c)

BuildSurrogateKeys(instance, c) ==
    LET label == instance.label
        k0 == {label}
        k1 == IF instance.pk # 0
              THEN k0 \cup {label \o Colon \o Digits(instance.pk)} ELSE k0
        k2 == IF instance.slug # <<>>
              THEN k1 \cup {label \o Colon \o SlugWord \o Colon \o instance.slug}
              ELSE k1
        lines == {Strip(l) : l \in Range(SplitLines(c.always_purged_keys))}
    IN Sorted(k2 \cup (lines \ {<<>>}))

----------------------------------------------------------------------------
(* models.FastlyConfig *)

\* field defaults of the model class: the row get_solo() creates
DefaultConfig ==
    [enabled |-> TRUE, api_token |-> "", service_id |-> "",
     soft_purge |-> TRUE, log_purges |-> TRUE,
     webhook_url |-> "", webhook_active |-> FALSE,
     allow_full_cache_purges |-> FALSE, always_purged_keys |-> <<>>,
     default_ttl |-> 300, cache_ttl |-> 300,
     stale_while_revalidate |-> 0, stale_if_error |-> 0]

\* a configured row: credentials set, a webhook address stored but switched off
BaseConfig ==
    [enabled |-> TRUE, api_token |-> "tok", service_id |-> "svc",
     soft_purge |-> FALSE, log_purges |-> TRUE,
     webhook_url |-> "hook", webhook_active |-> FALSE,
     allow_full_cache_purges |-> TRUE, always_purged_keys |-> <<>>,
     default_ttl |-> 300, cache_ttl |-> 300,
     stale_while_revalidate |-> 0, stale_if_error |-> 0]

\* " z\n\n": one always-purged key "z", padded, followed by a blank line
AlwaysZ == <<32, 122, 10, 10>>

\* the rows an administrator saves: DefaultConfig, BaseConfig, every row that
\* differs from BaseConfig in one field, and a row with the webhook switched
\* on but no address
Configs ==
    {DefaultConfig, BaseConfig,
     [BaseConfig EXCEPT !.enabled = FALSE],
     [BaseConfig EXCEPT !.api_token = ""],
     [BaseConfig EXCEPT !.service_id = ""],
     [BaseConfig EXCEPT !.log_purges = FALSE],
     [BaseConfig EXCEPT !.webhook_active = TRUE],
     [BaseConfig EXCEPT !.webhook_active = TRUE, !.webhook_url = ""],
     [BaseConfig EXCEPT !.allow_full_cache_purges = FALSE],
     [BaseConfig EXCEPT !.always_purged_keys = AlwaysZ]}

----------------------------------------------------------------------------
(* Entities handed to purge_instance *)

SlugA == <<97>>

\* pk 0 stands for an unsaved instance (pk None); has_url tells whether the
\* class defines get_absolute_url.  An entity that has a path has a slug,
\* which its route needs; the one without pk and path has no slug either.
Instances ==
    {[label |-> LabelBlogPost, pk |-> k,
      slug |-> IF k = 0 /\ ~u THEN <<>> ELSE SlugA,
      has_url |-> u] : k \in {0, 1}, u \in BOOLEAN}

\* blog.Post.get_absolute_url: the route of the post's slug, /<slug>/
GetAbsoluteUrl(instance) == Slash \o instance.slug \o Slash

----------------------------------------------------------------------------
(* Provider answers, errors, events *)

\* a response with status s and body b; bodies matter where the client
\* parses them: well formed ("ok"), without an active version, with a number
\* that int() rejects, or not JSON at all
Answer(s, b) == [raised |-> FALSE, status |-> s, body |-> b]
Resp(s) == Answer(s, "ok")
\* requests raises: timeout or connection failure
Timeout == [raised |-> TRUE, status |-> 0, body |-> ""]
\* no request was made
NoAnswer == [raised |-> FALSE, status |-> 0, body |-> ""]

\* answers to a purge POST: a 2xx, a 3xx that requests hands back as it is
\* (304 has no Location to follow), a 5xx, and no response at all
PurgeAnswers == {Resp(200), Resp(304), Resp(500), Timeout}
HookAnswers == {Resp(200), Resp(500), Timeout}

\* requests.Response.ok
Ok(ans) == ~ans.raised /\ ans.status < 400

NoError == [type |-> "none", api |-> "", target |-> <<>>, status |-> 0, version |-> 0]

\* FastlyAPIError raised by the client for a non-ok response
ApiError(api, target, status, version) ==
    [type |-> "FastlyAPIError", api |-> api, target |-> target,
     status |-> status, version |-> version]

\* the exception requests raises when no response arrives
TransportError(api, target) ==
    [type |-> "RequestException", api |-> api, target |-> target,
     status |-> 0, version |-> 0]

ConfigError == ApiError("get_fastly_client", <<>>, 0, 0)

MisconfiguredEntity ==
    [type |-> "ImproperlyConfigured", api |-> "get_absolute_url",
     target |-> <<>>, status |-> 0, version |-> 0]

\* line 232: snippet_name
SnippetName == "cors_headers"

\* a request to the provider and its answer; name is the name field of the
\* payload, which only the snippet create carries
RequestEvent(api, target, version, soft, ans) ==
    [ev |-> "request", api |-> api, target |-> target, version |-> version,
     soft |-> soft, raised |-> ans.raised, status |-> ans.status, ok |-> Ok(ans),
     body |-> ans.body, name |-> IF api = "create" THEN SnippetName ELSE ""]

LedgerEvent(entry) ==
    [ev |-> "ledger", api |-> entry.method, target |-> entry.target, version |-> 0,
     soft |-> FALSE, raised |-> FALSE, status |-> entry.response_status,
     ok |-> entry.success, body |-> "", name |-> ""]

\* a POST to the webhook whose text reports the purge (method, target) and
\* the answer ans it got
WebhookEvent(method, target, ans) ==
    [ev |-> "webhook", api |-> method, target |-> target, version |-> 0,
     soft |-> FALSE, raised |-> FALSE, status |-> ans.status, ok |-> Ok(ans),
     body |-> "", name |-> ""]

----------------------------------------------------------------------------
(* api.FastlyClient: purges *)

\* a table that keeps one row, overwritten by every purge
PurgeLogKeepLatest(table, entry) == <<entry>>

\* PurgeLog.objects.create(...)
PurgeLogCreate(table, entry) == Append(table, entry)

\* a webhook POST without the try/except around it
WebhookPostPropagates(c, hook) ==
    IF hook.raised THEN TransportError("webhook", <<>>) ELSE NoError

\* the webhook part of _log_and_notify: whatever requests.post does, the
\* except clause swallows it; the value is the exception that leaves the method
WebhookPost(c, hook) ==
    IF hook.raised
    THEN NoError    \* caught by "except Exception" and logged
    ELSE NoError    \* the webhook's response is not looked at

\* FastlyClient._log_and_notify on the response ans
LogAndNotify(c, method, target, ans, hook) ==
    LET entry == [method |-> method, target |-> target, success |-> Ok(ans),
                  response_status |-> ans.status]
        logged == c.log_purges
        posted == c.webhook_url # "" /\ c.webhook_active
    IN [entries |-> IF logged THEN <<entry>> ELSE <<>>,
        events |-> (IF logged THEN <<LedgerEvent(entry)>> ELSE <<>>)
                   \o (IF posted THEN <<WebhookEvent(method, target, ans)>> ELSE <<>>),
        hook |-> IF posted THEN hook ELSE NoAnswer,
        exc |-> IF posted THEN WebhookPost(c, hook) ELSE NoError]

PurgeApi(method) ==
    CASE method = "all" -> "purge_all"
      [] method = "key" -> "purge_key"
      [] method = "url" -> "purge_url_path"

\* FastlyClient.purge_all / purge_key / purge_url_path: the request, then
\* _log_and_notify, then the raise on a non-ok response
PurgeCall(c, method, target, ans, hook) ==
    LET req == RequestEvent(PurgeApi(method), target, 0, c.soft_purge, ans)
    IN IF ans.raised
       THEN [entries |-> <<>>, events |-> <<req>>, hook |-> NoAnswer,
             exc |-> TransportError(PurgeApi(method), target)]
       ELSE LET ln == LogAndNotify(c, method, target, ans, hook)
            IN [entries |-> ln.entries, events |-> <<req>> \o ln.events,
                hook |-> ln.hook,
                exc |-> IF ln.exc # NoError THEN ln.exc
                        ELSE IF ~Ok(ans)
                             THEN ApiError(PurgeApi(method), target, ans.status, 0)
                             ELSE NoError]

IsConfigured(c) == c.enabled /\ c.api_token # "" /\ c.service_id # ""

\* get_fastly_client that does not look at the token
GetFastlyClientNoToken(c) ==
    IF ~(c.enabled /\ c.service_id # "") THEN ConfigError ELSE NoError

\* get_fastly_client that does not look at the service id
GetFastlyClientNoService(c) ==
    IF ~(c.enabled /\ c.api_token # "") THEN ConfigError ELSE NoError

\* api.get_fastly_client: the error it raises, NoError when it builds a client
GetFastlyClient(c) == IF ~IsConfigured(c) THEN ConfigError ELSE NoError

----------------------------------------------------------------------------
(* The provider's service: numbered versions, one of them active, and the   *)
(* versions that carry a snippet named cors_headers                         *)

\* the content render_vcl_snippet() yields: two module configurations
Contents == {"vcl_a", "vcl_b"}

\* a snippet of a version of the service
Snippet(v, name, content) == [version |-> v, name |-> name, content |-> content]

\* the snippets named name on version v
Named(svc, v, name) == {sn \in svc.snippets : sn.version = v /\ sn.name = name}

\* the service at the provider: its active version, the number of its latest
\* version and the snippets of its versions; at first one version, with or
\* without a snippet of the name this client uses
Services ==
    {[active |-> 1, last |-> 1, snippets |-> sn] :
        sn \in {{}, {Snippet(1, SnippetName, "vcl_a")}}}

Bodies == {"ok", "no_active", "bad_number", "not_json"}

\* answers to GET /service/<id>
DetailAnswers == {Timeout, Answer(500, "ok")} \cup {Answer(200, b) : b \in Bodies}
\* answers to PUT .../version/<n>/clone
CloneAnswers == {Timeout, Answer(500, "ok"), Answer(200, "ok"), Answer(200, "bad_number"),
                 Answer(200, "not_json")}
\* answers to GET .../version/<n>/validate
ValidateAnswers == {Timeout, Answer(400, "ok"), Answer(200, "ok")}
\* answers that do not depend on the service's state
FaultAnswers == {Timeout, Answer(500, "ok")}

\* the provider's answers to GET .../snippet/<name> when it works: 404 when
\* the version has no such snippet, 200 or (from a cache) 304 when it has
ProbeAnswers(svc, v, name) ==
    IF Named(svc, v, name) = {} THEN {Answer(404, "ok")}
    ELSE {Answer(200, "ok"), Answer(304, "ok")}
\* to POST .../snippet: a second snippet of the same name is a conflict
CreateAnswer(svc, v, name) ==
    IF Named(svc, v, name) = {} THEN Answer(200, "ok") ELSE Answer(409, "ok")
\* to PUT .../snippet/<name>
UpdateAnswer(svc, v, name) ==
    IF Named(svc, v, name) = {} THEN Answer(404, "ok") ELSE Answer(200, "ok")

\* the service after a request that the provider carried out: the clone of
\* v has the snippets of v
Cloned(svc, v) ==
    [svc EXCEPT !.last = @ + 1,
                !.snippets = @ \cup {Snippet(svc.last + 1, sn.name, sn.content) :
                                        sn \in {x \in svc.snippets : x.version = v}}]
Created(svc, v, name, content) ==
    [svc EXCEPT !.snippets = @ \cup {Snippet(v, name, content)}]
Updated(svc, v, name, content) ==
    [svc EXCEPT !.snippets = (@ \ Named(svc, v, name)) \cup {Snippet(v, name, content)}]
Activated(svc, v) == [svc EXCEPT !.active = v]

ValueError(api) ==
    [type |-> "ValueError", api |-> api, target |-> <<>>, status |-> 0, version |-> 0]

DeployTransportError(api) == TransportError(api, <<>>)

\* FastlyClient._get_active_version_number on the answer ans: the exception
\* that leaves it and the number it returns
GetActiveVersionNumber(svc, ans) ==
    IF ans.raised THEN [exc |-> DeployTransportError("service_detail"), value |-> 0]
    ELSE IF ~Ok(ans) THEN [exc |-> ApiError("service_detail", <<>>, ans.status, 0), value |-> 0]
    ELSE IF ans.body = "not_json" THEN [exc |-> ValueError("service_detail"), value |-> 0]
    ELSE IF ans.body = "no_active" THEN [exc |-> ApiError("service_detail", <<>>, 0, 0), value |-> 0]
    ELSE IF ans.body = "bad_number" THEN [exc |-> ApiError("service_detail", <<>>, 0, 0), value |-> 0]
    ELSE [exc |-> NoError, value |-> svc.active]

\* FastlyClient.validate_version on the answer ans
ValidateVersion(version, ans) ==
    IF ans.raised THEN [exc |-> DeployTransportError("validate"), ok |-> FALSE, status |-> 0]
    ELSE [exc |-> NoError, ok |-> Ok(ans), status |-> ans.status]

\* _clone_version counting on from the version it cloned instead of reading
\* the number in the response
CloneVersionCountsOn(svc, version, ans) ==
    IF ans.raised THEN [exc |-> DeployTransportError("clone"), value |-> 0]
    ELSE IF ~Ok(ans) THEN [exc |-> ApiError("clone", <<>>, ans.status, version), value |-> 0]
    ELSE IF ans.body = "not_json" THEN [exc |-> ValueError("clone"), value |-> 0]
    ELSE IF ans.body = "bad_number" THEN [exc |-> ApiError("clone", <<>>, 0, 0), value |-> 0]
    ELSE [exc |-> NoError, value |-> version + 1]

\* _clone_version handing back the number of the version it cloned
CloneVersionReturnsSource(svc, version, ans) ==
    IF ans.raised THEN [exc |-> DeployTransportError("clone"), value |-> 0]
    ELSE IF ~Ok(ans) THEN [exc |-> ApiError("clone", <<>>, ans.status, version), value |-> 0]
    ELSE IF ans.body = "not_json" THEN [exc |-> ValueError("clone"), value |-> 0]
    ELSE IF ans.body = "bad_number" THEN [exc |-> ApiError("clone", <<>>, 0, 0), value |-> 0]
    ELSE [exc |-> NoError, value |-> version]

\* FastlyClient._clone_version(version) on the answer ans; the new number is
\* the one the provider gave the clone
CloneVersion(svc, version, ans) ==
    IF ans.raised THEN [exc |-> DeployTransportError("clone"), value |-> 0]
    ELSE IF ~Ok(ans) THEN [exc |-> ApiError("clone", <<>>, ans.status, version), value |-> 0]
    ELSE IF ans.body = "not_json" THEN [exc |-> ValueError("clone"), value |-> 0]
    ELSE IF ans.body = "bad_number" THEN [exc |-> ApiError("clone", <<>>, 0, 0), value |-> 0]
    ELSE [exc |-> NoError, value |-> svc.last + 1]

----------------------------------------------------------------------------
(* Processes *)

Procs == {"p1", "p2"}
\* the process that serves requests, admin actions and commands
Runners == {"p1"}

NoInstance == [label |-> <<>>, pk |-> 0, slug |-> <<>>, has_url |-> FALSE]

NoModule == [enabled |-> FALSE, renders |-> FALSE, content |-> ""]

\* the EdgeModuleCors fields the middleware reads
NoCors == [enabled |-> FALSE, origin_mode |-> "anyone", allowed_methods |-> <<>>,
           allowed_headers |-> <<>>, allowed_origins_regex |-> <<>>]

\* response headers: a function from the names present to their values
NoHeaders == [n \in {} |-> <<>>]

\* origin: the request's Origin header, <<>> when it has none; context_key: the
\* name under which the response's context holds instance, "" when it holds
\* none; headers: the response as the handler receives it
NoArg == [instance |-> NoInstance, status |-> "", use_keys |-> FALSE, use_url |-> FALSE,
          module |-> NoModule, autoclone |-> FALSE, activate |-> FALSE,
          cors |-> NoCors, origin |-> <<>>, context_key |-> "", headers |-> NoHeaders]

PurgeArg(instance, use_keys, use_url) ==
    [NoArg EXCEPT !.instance = instance, !.use_keys = use_keys, !.use_url = use_url]

ApplyArg(module, autoclone, activate) ==
    [NoArg EXCEPT !.module = module, !.autoclone = autoclone, !.activate = activate]

\* mark: the length of the ledger when the operation started;
\* hook: the answer to the operation's latest webhook POST
InitLoc == [keys |-> <<>>, idx |-> 0, last_error |-> NoError, mark |-> 0,
            hook |-> NoAnswer, active_version |-> 0, target_version |-> 0,
            activated |-> FALSE]

\* how the operation ended: it returned or raised err; msg is the level of the
\* message it showed (message_user, stdout), version and activated the pair
\* apply_cors_vcl returns, headers the response a middleware hands back
NoResult == [how |-> "none", err |-> NoError, msg |-> "none", version |-> 0,
             activated |-> FALSE, headers |-> NoHeaders]
Returned == [NoResult EXCEPT !.how = "return"]
Raised(e) == [NoResult EXCEPT !.how = "raise", !.err = e]
\* self.message_user(request, text, level): e is the error the text is made of
Message(level, e) == [NoResult EXCEPT !.how = "return", !.err = e, !.msg = level]

Init ==
    /\ config \in Configs
    /\ ledger = <<>>
    /\ service \in Services
    /\ kind = [p \in Procs |-> "idle"]
    /\ pc = [p \in Procs |-> "idle"]
    /\ cfg = [p \in Procs |-> DefaultConfig]
    /\ arg = [p \in Procs |-> NoArg]
    /\ loc = [p \in Procs |-> InitLoc]
    /\ trace = [p \in Procs |-> <<>>]
    /\ result = [p \in Procs |-> NoResult]

\* an operation begins: FastlyConfig.get_solo() reads the row
Begin(p, k, a) ==
    /\ pc[p] = "idle"
    /\ Len(ledger) < MaxBacklog
    /\ kind' = [kind EXCEPT ![p] = k]
    /\ cfg' = [cfg EXCEPT ![p] = config]
    /\ arg' = [arg EXCEPT ![p] = a]
    /\ loc' = [loc EXCEPT ![p] = [InitLoc EXCEPT !.mark = Len(ledger)]]
    /\ trace' = [trace EXCEPT ![p] = <<>>]

\* the operation ends with result r
End(p, r) ==
    /\ pc' = [pc EXCEPT ![p] = "done"]
    /\ result' = [result EXCEPT ![p] = r]

Goto(p, l) ==
    /\ pc' = [pc EXCEPT ![p] = l]
    /\ UNCHANGED result

\* the effect of one client purge call on the ledger and the trace
ApplyCall(p, call) ==
    /\ ledger' = IF call.entries = <<>> THEN ledger
                 ELSE PurgeLogCreate(ledger, call.entries[1])
    /\ trace' = [trace EXCEPT ![p] = @ \o call.events]

\* The administrator saves the configuration row.  A running operation works
\* on the object it read when it began; the only later read of the row is the
\* one in build_surrogate_keys_for_instance, which uses always_purged_keys
\* alone.  A save during an operation is therefore taken either before that
\* read, when it changes always_purged_keys, or after the operation.
SaveConfig(c) ==
    /\ c # config
    /\ \A p \in Procs :
         \/ pc[p] = "idle"
         \/ /\ pc[p] = "build_keys"
            /\ c = [config EXCEPT !.always_purged_keys = c.always_purged_keys]
    /\ config' = c
    /\ UNCHANGED <<ledger, service, kind, pc, cfg, arg, loc, trace, result>>

\* the caller takes the result; the process is free again
Return(p) ==
    /\ pc[p] = "done"
    /\ kind' = [kind EXCEPT ![p] = "idle"]
    /\ pc' = [pc EXCEPT ![p] = "idle"]
    /\ cfg' = [cfg EXCEPT ![p] = DefaultConfig]
    /\ arg' = [arg EXCEPT ![p] = NoArg]
    /\ loc' = [loc EXCEPT ![p] = InitLoc]
    /\ trace' = [trace EXCEPT ![p] = <<>>]
    /\ result' = [result EXCEPT ![p] = NoResult]
    /\ UNCHANGED <<config, ledger, service>>

----------------------------------------------------------------------------
(* utils.purge_instance *)

\* an orchestrator that keeps the first error instead of the last
NextErrorKeepsFirst(last, exc) == IF last # NoError THEN last ELSE exc

\* lines 50-53 and 61-65: "except Exception as exc: last_error = exc"
NextError(last, exc) == IF exc # NoError THEN exc ELSE last

\* the path purge without the hasattr check
HasAbsoluteUrlUnchecked(instance) == TRUE

\* line 56: hasattr(instance, "get_absolute_url")
HasAbsoluteUrl(instance) == instance.has_url

\* the operations that run purge_instance: a direct call and the two signal
\* handlers of blog.Post
PurgeKinds == {"purge_instance", "post_save", "post_delete"}

\* a handler that lets the outcome of purge_instance through
PropagateOutcome(k, r) == r

\* how the operation k ends when its purge_instance ended with r: the signal
\* handlers pass on nothing ("except Exception: pass", signals lines 27-28
\* and 34-35); err still tells what purge_instance raised
Outcome(k, r) ==
    IF k = "purge_instance" THEN r ELSE [r EXCEPT !.how = "return"]

\* where purge_instance continues after the key loop
AfterKeys(a) == IF a.use_url THEN "purge_url" ELSE "finish"

\* lines 36-46, within the operation k: read the config, leave when disabled
\* or unconfigured
PurgeInstanceCall(p, k, a) ==
    /\ Begin(p, k, a)
    /\ IF ~config.enabled THEN End(p, Returned)
       ELSE IF GetFastlyClient(config) # NoError THEN End(p, Returned)
       ELSE Goto(p, IF a.use_keys THEN "build_keys" ELSE AfterKeys(a))
    /\ UNCHANGED <<config, ledger, service>>

\* purge_instance without its two early returns, on a client built directly
PurgeInstanceStartUnguarded(p, instance, use_keys, use_url) ==
    /\ Begin(p, "purge_instance", PurgeArg(instance, use_keys, use_url))
    /\ Goto(p, IF use_keys THEN "build_keys"
                ELSE AfterKeys(PurgeArg(instance, use_keys, use_url)))
    /\ UNCHANGED <<config, ledger, service>>

\* a direct call of purge_instance
PurgeInstanceStart(p, instance, use_keys, use_url) ==
    PurgeInstanceCall(p, "purge_instance", PurgeArg(instance, use_keys, use_url))

\* line 49: build_surrogate_keys_for_instance reads the row again
PurgeInstanceKeys(p) ==
    /\ kind[p] \in PurgeKinds /\ pc[p] = "build_keys"
    /\ loc' = [loc EXCEPT ![p].keys = BuildSurrogateKeys(arg[p].instance, config),
                          ![p].idx = 1]
    /\ Goto(p, "purge_key")
    /\ UNCHANGED <<config, ledger, service, kind, cfg, arg, trace>>

\* lines 49-53: one iteration of the key loop
PurgeInstanceKey(p) ==
    /\ kind[p] \in PurgeKinds /\ pc[p] = "purge_key"
    /\ \E ans \in PurgeAnswers, hook \in HookAnswers :
         LET key == loc[p].keys[loc[p].idx]
             call == PurgeCall(cfg[p], "key", key, ans, hook)
         IN /\ ApplyCall(p, call)
            /\ loc' = [loc EXCEPT
                 ![p].last_error = NextError(@, call.exc),
                 ![p].hook = IF call.hook # NoAnswer THEN call.hook ELSE @,
                 ![p].idx = @ + 1]
    /\ Goto(p, IF loc[p].idx < Len(loc[p].keys) THEN "purge_key" ELSE AfterKeys(arg[p]))
    /\ UNCHANGED <<config, service, kind, cfg, arg>>

\* lines 55-65: the path purge
PurgeInstanceUrl(p) ==
    /\ kind[p] \in PurgeKinds /\ pc[p] = "purge_url"
    /\ IF ~HasAbsoluteUrl(arg[p].instance)
       THEN /\ End(p, Outcome(kind[p], Raised(MisconfiguredEntity)))
            /\ UNCHANGED <<ledger, trace, loc>>
       ELSE /\ \E ans \in PurgeAnswers, hook \in HookAnswers :
                 LET path == GetAbsoluteUrl(arg[p].instance)
                     call == PurgeCall(cfg[p], "url", path, ans, hook)
                 IN /\ ApplyCall(p, call)
                    /\ loc' = [loc EXCEPT
                         ![p].last_error = NextError(@, call.exc),
                         ![p].hook = IF call.hook # NoAnswer THEN call.hook ELSE @]
            /\ Goto(p, "finish")
    /\ UNCHANGED <<config, service, kind, cfg, arg>>

\* lines 67-68
PurgeInstanceFinish(p) ==
    /\ kind[p] \in PurgeKinds /\ pc[p] = "finish"
    /\ End(p, Outcome(kind[p], IF loc[p].last_error # NoError
                               THEN Raised(loc[p].last_error) ELSE Returned))
    /\ UNCHANGED <<config, ledger, service, kind, cfg, arg, loc, trace>>

PurgeInstance(p) ==
    \/ \E i \in Instances, uk \in BOOLEAN, uu \in BOOLEAN : PurgeInstanceStart(p, i, uk, uu)
    \/ PurgeInstanceKeys(p)
    \/ PurgeInstanceKey(p)
    \/ PurgeInstanceUrl(p)
    \/ PurgeInstanceFinish(p)

----------------------------------------------------------------------------
(* signals: post_save and post_delete of blog.Post *)

\* blog.Post.STATUS_CHOICES
Statuses == {"draft", "published"}

\* the posts a signal is sent for: saved rows of a class with a path
Posts == {i \in Instances : i.pk # 0 /\ i.has_url}

\* signals line 25
IsPublished(status) == status = "published"

\* fastly_purge_on_post_save (lines 22-28): purge_instance(instance) with its
\* defaults, for a published post only
PostSaveStart(p, instance, status) ==
    LET a == [PurgeArg(instance, TRUE, TRUE) EXCEPT !.status = status]
    IN IF IsPublished(status)
       THEN PurgeInstanceCall(p, "post_save", a)
       ELSE /\ Begin(p, "post_save", a)
            /\ End(p, Returned)
            /\ UNCHANGED <<config, ledger, service>>

\* fastly_purge_on_post_delete (lines 30-35)
PostDeleteStart(p, instance, status) ==
    PurgeInstanceCall(p, "post_delete",
                      [PurgeArg(instance, TRUE, TRUE) EXCEPT !.status = status])

\* a post is saved
PostSave(p) == \E i \in Posts, st \in Statuses : PostSaveStart(p, i, st)

\* a post is deleted
PostDelete(p) == \E i \in Posts, st \in Statuses : PostDeleteStart(p, i, st)

\* the steps of the purge_instance a handler has called
PurgeSteps(p) ==
    \/ PurgeInstanceKeys(p)
    \/ PurgeInstanceKey(p)
    \/ PurgeInstanceUrl(p)
    \/ PurgeInstanceFinish(p)

----------------------------------------------------------------------------
(* admin.FastlyConfigAdmin and the fastly_update_vcl command *)

FullPurgesDisabled ==
    [type |-> "FullPurgesDisabled", api |-> "purge_all_cache", target |-> <<>>,
     status |-> 0, version |-> 0]

\* CommandError(str(exc)) / CommandError(msg)
CommandError(e) == [e EXCEPT !.type = "CommandError"]

\* admin lines 60-62 and 66-67
TestConnectionStart(p) ==
    /\ Begin(p, "test_connection", NoArg)
    /\ IF GetFastlyClient(config) # NoError
       THEN End(p, Message("error", ConfigError))
       ELSE Goto(p, "request")
    /\ UNCHANGED <<config, ledger, service>>

\* api.FastlyClient.test_connection and admin lines 63-67
TestConnectionRequest(p) ==
    /\ kind[p] = "test_connection" /\ pc[p] = "request"
    /\ \E ans \in DetailAnswers :
         /\ trace' = [trace EXCEPT ![p] =
                Append(@, RequestEvent("service_detail", <<>>, 0, FALSE, ans))]
         /\ End(p, IF ans.raised THEN Raised(DeployTransportError("service_detail"))
                   ELSE IF ~Ok(ans)
                        THEN Message("error", ApiError("service_detail", <<>>, ans.status, 0))
                   ELSE IF ans.body = "not_json" THEN Raised(ValueError("service_detail"))
                   ELSE Message("success", NoError))
    /\ UNCHANGED <<config, ledger, service, kind, cfg, arg, loc>>

TestConnection(p) == TestConnectionStart(p) \/ TestConnectionRequest(p)

\* a purge-all action that does not look at allow_full_cache_purges
FullPurgeAllowedAlways(c) == TRUE

\* admin line 73
FullPurgeAllowed(c) == c.allow_full_cache_purges

\* admin lines 71-83 and 85-86
PurgeAllCacheStart(p) ==
    /\ Begin(p, "purge_all_cache", NoArg)
    /\ IF ~FullPurgeAllowed(config)
       THEN End(p, Message("error", FullPurgesDisabled))
       ELSE IF GetFastlyClient(config) # NoError
            THEN End(p, Message("error", ConfigError))
            ELSE Goto(p, "request")
    /\ UNCHANGED <<config, ledger, service>>

\* admin lines 84-92: client.purge_all, then the message
PurgeAllCacheRequest(p) ==
    /\ kind[p] = "purge_all_cache" /\ pc[p] = "request"
    /\ \E ans \in PurgeAnswers, hook \in HookAnswers :
         LET call == PurgeCall(cfg[p], "all", Star, ans, hook)
         IN /\ ApplyCall(p, call)
            /\ loc' = [loc EXCEPT ![p].hook = IF call.hook # NoAnswer THEN call.hook ELSE @]
            /\ End(p, IF call.exc = NoError THEN Message("warning", NoError)
                      ELSE IF call.exc.type = "FastlyAPIError"
                           THEN Message("error", call.exc)
                           ELSE Raised(call.exc))
    /\ UNCHANGED <<config, service, kind, cfg, arg>>

PurgeAllCache(p) == PurgeAllCacheStart(p) \/ PurgeAllCacheRequest(p)

\* the two callers of client.validate_active_vcl
Validators == {"validate_active_vcl", "fastly_update_vcl"}

\* what the caller k makes of a FastlyAPIError e raised inside
\* client.validate_active_vcl(): the admin action catches it, the command's
\* try block covers get_fastly_client only
OnClientError(k, e) ==
    IF e.type = "FastlyAPIError" /\ k = "validate_active_vcl"
    THEN Message("error", e) ELSE Raised(e)

\* admin lines 96-98, 102-103; command lines 13-18
ValidateActiveStart(p, k) ==
    /\ k \in Validators
    /\ Begin(p, k, NoArg)
    /\ IF GetFastlyClient(config) # NoError
       THEN End(p, IF k = "validate_active_vcl" THEN Message("error", ConfigError)
                   ELSE Raised(CommandError(ConfigError)))
       ELSE Goto(p, "active_version")
    /\ UNCHANGED <<config, ledger, service>>

\* api.FastlyClient.validate_active_vcl, first half: the active version
ValidateActiveFetch(p) ==
    /\ kind[p] \in Validators /\ pc[p] = "active_version"
    /\ \E ans \in DetailAnswers :
         LET r == GetActiveVersionNumber(service, ans)
         IN /\ trace' = [trace EXCEPT ![p] =
                   Append(@, RequestEvent("service_detail", <<>>, 0, FALSE, ans))]
            /\ IF r.exc # NoError
               THEN /\ End(p, OnClientError(kind[p], r.exc))
                    /\ UNCHANGED loc
               ELSE /\ loc' = [loc EXCEPT ![p].active_version = r.value,
                                          ![p].target_version = r.value]
                    /\ Goto(p, "validate")
    /\ UNCHANGED <<config, ledger, service, kind, cfg, arg>>

\* second half: validate_version, then the caller's report
ValidateActiveCheck(p) ==
    /\ kind[p] \in Validators /\ pc[p] = "validate"
    /\ \E ans \in ValidateAnswers :
         LET v == loc[p].target_version
             r == ValidateVersion(v, ans)
         IN /\ trace' = [trace EXCEPT ![p] =
                   Append(@, RequestEvent("validate", <<>>, v, FALSE, ans))]
            /\ End(p, IF r.exc # NoError THEN Raised(r.exc)
                      ELSE IF r.ok THEN Message("success", NoError)
                      ELSE IF kind[p] = "validate_active_vcl"
                           THEN Message("error", ApiError("validate", <<>>, r.status, v))
                           ELSE Raised(CommandError(ApiError("validate", <<>>, r.status, v))))
    /\ UNCHANGED <<config, ledger, service, kind, cfg, arg, loc>>

ValidateActive(p) ==
    \/ \E k \in Validators : ValidateActiveStart(p, k)
    \/ ValidateActiveFetch(p)
    \/ ValidateActiveCheck(p)

----------------------------------------------------------------------------
(* api.FastlyClient.apply_cors_vcl *)

\* the modules handed to apply_cors_vcl: a disabled one, one whose
\* render_vcl_snippet() raises, and one for each content it can yield
Modules ==
    {[enabled |-> FALSE, renders |-> TRUE, content |-> "vcl_a"],
     [enabled |-> TRUE, renders |-> FALSE, content |-> ""]}
    \cup {[enabled |-> TRUE, renders |-> TRUE, content |-> c] : c \in Contents}

\* cors_module.render_vcl_snippet()
RenderVclSnippet(module) == module.content

\* apply_cors_vcl going on whatever the module's enabled flag
ModuleEnabledUnchecked(module) == TRUE

\* getattr(cors_module, "enabled", False), line 214
ModuleEnabled(module) == module.enabled

ModuleDisabled == ApiError("apply_cors_vcl", <<>>, 0, 0)
RenderError == ApiError("render_vcl_snippet", <<>>, 0, 0)

ReturnedVersion(v, activated) ==
    [NoResult EXCEPT !.how = "return", !.version = v, !.activated = activated]

\* the client is built by get_fastly_client; lines 214-217
ApplyStart(p, module, autoclone, activate) ==
    /\ Begin(p, "apply_cors_vcl", ApplyArg(module, autoclone, activate))
    /\ IF GetFastlyClient(config) # NoError THEN End(p, Raised(ConfigError))
       ELSE IF ~ModuleEnabled(module) THEN End(p, Raised(ModuleDisabled))
       ELSE Goto(p, "active_version")
    /\ UNCHANGED <<config, ledger, service>>

\* lines 220-221
ApplyFetch(p) ==
    /\ kind[p] = "apply_cors_vcl" /\ pc[p] = "active_version"
    /\ \E ans \in DetailAnswers :
         LET r == GetActiveVersionNumber(service, ans)
         IN /\ trace' = [trace EXCEPT ![p] =
                   Append(@, RequestEvent("service_detail", <<>>, 0, FALSE, ans))]
            /\ IF r.exc # NoError
               THEN /\ End(p, Raised(r.exc))
                    /\ UNCHANGED loc
               ELSE /\ loc' = [loc EXCEPT ![p].active_version = r.value,
                                          ![p].target_version = r.value]
                    /\ Goto(p, IF arg[p].autoclone THEN "clone" ELSE "render")
    /\ UNCHANGED <<config, ledger, service, kind, cfg, arg>>

\* lines 223-224; the provider makes the clone whenever it answers 2xx
ApplyClone(p) ==
    /\ kind[p] = "apply_cors_vcl" /\ pc[p] = "clone"
    /\ \E ans \in CloneAnswers :
         LET v == loc[p].active_version
             r == CloneVersion(service, v, ans)
         IN /\ Ok(ans) => service.last < MaxVersion
            /\ service' = IF Ok(ans) THEN Cloned(service, v) ELSE service
            /\ trace' = [trace EXCEPT ![p] =
                   Append(@, RequestEvent("clone", <<>>, v, FALSE, ans))]
            /\ IF r.exc # NoError
               THEN /\ End(p, Raised(r.exc))
                    /\ UNCHANGED loc
               ELSE /\ loc' = [loc EXCEPT ![p].target_version = r.value]
                    /\ Goto(p, "render")
    /\ UNCHANGED <<config, ledger, kind, cfg, arg>>

\* lines 227-230
ApplyRender(p) ==
    /\ kind[p] = "apply_cors_vcl" /\ pc[p] = "render"
    /\ IF ~arg[p].module.renders THEN End(p, Raised(RenderError))
       ELSE Goto(p, "probe")
    /\ UNCHANGED <<config, ledger, service, kind, cfg, arg, loc, trace>>

\* apply_cors_vcl creating the snippet whenever the probe is answered
ProbeBranchAlwaysCreate(ans) ==
    IF ans.status = 404 \/ Ok(ans) THEN "create" ELSE "abort"

\* the branch taken on the probe's response (lines 254, 268, 281)
ProbeBranch(ans) ==
    IF ans.status = 404 THEN "create"
    ELSE IF Ok(ans) THEN "update"
    ELSE "abort"

\* lines 246-254 and 281-284: the probe decides between create and update
ApplyProbe(p) ==
    /\ kind[p] = "apply_cors_vcl" /\ pc[p] = "probe"
    /\ LET v == loc[p].target_version
       IN \E ans \in FaultAnswers \cup ProbeAnswers(service, v, SnippetName) :
            /\ trace' = [trace EXCEPT ![p] =
                   Append(@, RequestEvent("probe", <<>>, v, FALSE, ans))]
            /\ IF ans.raised THEN End(p, Raised(DeployTransportError("probe")))
               ELSE IF ProbeBranch(ans) = "abort"
                    THEN End(p, Raised(ApiError("probe", <<>>, ans.status, 0)))
               ELSE Goto(p, ProbeBranch(ans))
    /\ UNCHANGED <<config, ledger, service, kind, cfg, arg, loc>>

\* apply_cors_vcl going on to validate whatever the provider answered to the
\* create or update request
AfterUpsertIgnoresStatus(p, api, ans) ==
    IF ans.raised THEN End(p, Raised(DeployTransportError(api)))
    ELSE Goto(p, "validate")

\* what follows the answer ans to the create or update request api
\* (lines 286-289)
AfterUpsert(p, api, ans) ==
    IF ans.raised THEN End(p, Raised(DeployTransportError(api)))
    ELSE IF ~Ok(ans) THEN End(p, Raised(ApiError("upsert", <<>>, ans.status, 0)))
    ELSE Goto(p, "validate")

\* lines 254-267: POST to the snippet collection, the name in the payload
ApplyCreate(p) ==
    /\ kind[p] = "apply_cors_vcl" /\ pc[p] = "create"
    /\ LET v == loc[p].target_version
           content == RenderVclSnippet(arg[p].module)
       IN \E ans \in FaultAnswers \cup {CreateAnswer(service, v, SnippetName)} :
            /\ service' = IF Ok(ans) THEN Created(service, v, SnippetName, content)
                          ELSE service
            /\ trace' = [trace EXCEPT ![p] =
                   Append(@, RequestEvent("create", <<>>, v, FALSE, ans))]
            /\ AfterUpsert(p, "create", ans)
    /\ UNCHANGED <<config, ledger, kind, cfg, arg, loc>>

\* lines 268-280: PUT to the snippet of that name
ApplyUpdate(p) ==
    /\ kind[p] = "apply_cors_vcl" /\ pc[p] = "update"
    /\ LET v == loc[p].target_version
           content == RenderVclSnippet(arg[p].module)
       IN \E ans \in FaultAnswers \cup {UpdateAnswer(service, v, SnippetName)} :
            /\ service' = IF Ok(ans) THEN Updated(service, v, SnippetName, content)
                          ELSE service
            /\ trace' = [trace EXCEPT ![p] =
                   Append(@, RequestEvent("update", <<>>, v, FALSE, ans))]
            /\ AfterUpsert(p, "update", ans)
    /\ UNCHANGED <<config, ledger, kind, cfg, arg, loc>>

\* apply_cors_vcl activating whether asked to or not
ActivateAlways(a) == TRUE

\* if activate: (line 299)
ActivateRequested(a) == a.activate

\* apply_cors_vcl that does not look at the outcome of the validation
ValidationIgnored(r) == TRUE

\* whether apply_cors_vcl goes on after validate_version returned r
\* (lines 293-296)
ValidationPassed(r) == r.ok

\* lines 291-298
ApplyValidate(p) ==
    /\ kind[p] = "apply_cors_vcl" /\ pc[p] = "validate"
    /\ \E ans \in ValidateAnswers :
         LET v == loc[p].target_version
             r == ValidateVersion(v, ans)
         IN /\ trace' = [trace EXCEPT ![p] =
                   Append(@, RequestEvent("validate", <<>>, v, FALSE, ans))]
            /\ IF r.exc # NoError THEN End(p, Raised(r.exc))
               ELSE IF ~ValidationPassed(r)
                    THEN End(p, Raised(ApiError("validate", <<>>, r.status, v)))
               ELSE IF ActivateRequested(arg[p]) THEN Goto(p, "activate")
               ELSE End(p, ReturnedVersion(v, FALSE))
    /\ UNCHANGED <<config, ledger, service, kind, cfg, arg, loc>>

\* lines 299-312
ApplyActivate(p) ==
    /\ kind[p] = "apply_cors_vcl" /\ pc[p] = "activate"
    /\ LET v == loc[p].target_version
       IN \E ans \in FaultAnswers \cup {Answer(200, "ok")} :
            /\ service' = IF Ok(ans) THEN Activated(service, v) ELSE service
            /\ trace' = [trace EXCEPT ![p] =
                   Append(@, RequestEvent("activate", <<>>, v, FALSE, ans))]
            /\ IF ans.raised THEN End(p, Raised(DeployTransportError("activate")))
               ELSE IF ~Ok(ans) THEN End(p, Raised(ApiError("activate", <<>>, ans.status, v)))
               ELSE End(p, ReturnedVersion(v, TRUE))
    /\ UNCHANGED <<config, ledger, kind, cfg, arg, loc>>

\* apply_cors_vcl on one of the modules
ApplyCorsVclOn(p, modules) ==
    \/ \E m \in modules, ac \in BOOLEAN, act \in BOOLEAN : ApplyStart(p, m, ac, act)
    \/ ApplyFetch(p)
    \/ ApplyClone(p)
    \/ ApplyRender(p)
    \/ ApplyProbe(p)
    \/ ApplyCreate(p)
    \/ ApplyUpdate(p)
    \/ ApplyValidate(p)
    \/ ApplyActivate(p)

ApplyCorsVcl(p) == ApplyCorsVclOn(p, Modules)

----------------------------------------------------------------------------
(* Deriving the keys of an entity *)

\* always-purged texts an administrator types: "a\nb", "b\na", "a\n\nb\na"
\* (a blank line and a repeated key), " a \r\nb" (padding, CRLF),
\* "blog.post\na" (the entity's own label), "blog.post:slug:" (the slug key of
\* an entity without slug)
TextAB == <<97, 10, 98>>
TextBA == <<98, 10, 97>>
TextABlankBA == <<97, 10, 10, 98, 10, 97>>
TextPadded == <<32, 97, 32, 13, 10, 98>>
TextLabel == LabelBlogPost \o <<10, 97>>
TextSlugKey == LabelBlogPost \o Colon \o SlugWord \o Colon

KeyTexts == {<<>>, TextAB, TextBA, TextABlankBA, TextPadded, TextLabel, TextSlugKey}

\* entities of every shape: saved or not (pk 0 stands for None), one- and
\* two-digit keys, with and without slug
Entities ==
    {[label |-> LabelBlogPost, pk |-> k, slug |-> s, has_url |-> FALSE] :
        k \in {0, 1, 12}, s \in {<<>>, SlugA}}

\* the administrator saves the row while no call is under way
SaveConfigRow(c) ==
    /\ c # config
    /\ \A p \in Procs : pc[p] \in {"idle", "done"}
    /\ config' = c
    /\ UNCHANGED <<ledger, service, kind, pc, cfg, arg, loc, trace, result>>

\* build_surrogate_keys_for_instance(instance): reads the row, returns the keys
BuildSurrogateKeysForInstance(p, instance) ==
    /\ pc[p] = "idle"
    /\ kind' = [kind EXCEPT ![p] = "build_surrogate_keys"]
    /\ cfg' = [cfg EXCEPT ![p] = config]
    /\ arg' = [arg EXCEPT ![p] = PurgeArg(instance, FALSE, FALSE)]
    /\ loc' = [loc EXCEPT ![p] = [InitLoc EXCEPT
                   !.keys = BuildSurrogateKeys(instance, config)]]
    /\ End(p, Returned)
    /\ UNCHANGED <<config, ledger, service, trace>>

----------------------------------------------------------------------------
(* middleware: response headers *)

Space == <<32>>
CommaSpace == <<44, 32>>
\* "max-age=", "stale-while-revalidate=", "stale-if-error=", "public, max-age="
MaxAgeEq == <<109, 97, 120, 45, 97, 103, 101, 61>>
SwrEq == <<115, 116, 97, 108, 101, 45, 119, 104, 105, 108, 101, 45, 114, 101,
           118, 97, 108, 105, 100, 97, 116, 101, 61>>
SieEq == <<115, 116, 97, 108, 101, 45, 105, 102, 45, 101, 114, 114, 111, 114, 61>>
PublicMaxAgeEq == <<112, 117, 98, 108, 105, 99, 44, 32, 109, 97, 120, 45, 97, 103, 101, 61>>
\* "no-store", "Origin", "Cookie", "cookie,origin"
NoStore == <<110, 111, 45, 115, 116, 111, 114, 101>>
OriginWord == <<79, 114, 105, 103, 105, 110>>
CookieWord == <<67, 111, 111, 107, 105, 101>>
VaryLower == <<99, 111, 111, 107, 105, 101, 44, 111, 114, 105, 103, 105, 110>>
\* "GET,HEAD,POST,OPTIONS", "X-Token"
MethodsDefault == <<71, 69, 84, 44, 72, 69, 65, 68, 44, 80, 79, 83, 84, 44, 79, 80,
                    84, 73, 79, 78, 83>>
HeadersXToken == <<88, 45, 84, 111, 107, 101, 110>>
\* "^https?://"
HttpPattern == <<94, 104, 116, 116, 112, 115, 63, 58, 47, 47>>
\* the regexes "a\.b", "a.b", "(", "a\"
RegexAB == <<97, 92, 46, 98>>
RegexADotB == <<97, 46, 98>>
RegexOpen == <<40>>
RegexBackslash == <<97, 92>>
\* the origins "https://a.b", "http://a.b", "https://axb", "https://a.bc",
\* "https://c.d", "ftp://a.b"
OriginHttpsAB == <<104, 116, 116, 112, 115, 58, 47, 47, 97, 46, 98>>
OriginHttpAB == <<104, 116, 116, 112, 58, 47, 47, 97, 46, 98>>
OriginHttpsAxB == <<104, 116, 116, 112, 115, 58, 47, 47, 97, 120, 98>>
OriginHttpsABC == <<104, 116, 116, 112, 115, 58, 47, 47, 97, 46, 98, 99>>
OriginHttpsCD == <<104, 116, 116, 112, 115, 58, 47, 47, 99, 46, 100>>
OriginFtpAB == <<102, 116, 112, 58, 47, 47, 97, 46, 98>>

HasHeader(h, name) == name \in DOMAIN h

\* response[name] = value
SetHeader(h, name, value) ==
    [n \in DOMAIN h \cup {name} |-> IF n = name THEN value ELSE h[n]]

\* a setdefault that replaces the value already there
SetDefaultOverwrites(h, name, value) == SetHeader(h, name, value)

\* response.setdefault(name, value)
SetDefault(h, name, value) ==
    IF HasHeader(h, name) THEN h ELSE SetHeader(h, name, value)

\* sep.join(parts)
RECURSIVE Join(_, _)
Join(parts, sep) ==
    IF parts = <<>> THEN <<>>
    ELSE IF Len(parts) = 1 THEN parts[1]
    ELSE parts[1] \o sep \o Join(Tail(parts), sep)

\* a Surrogate-Control value that leaves the stale directives out
SurrogateControlMaxAgeOnly(c) == MaxAgeEq \o Digits(c.default_ttl)

\* lines 39-44: the Surrogate-Control value
SurrogateControl(c) ==
    LET parts == <<MaxAgeEq \o Digits(c.default_ttl)>>
                 \o (IF c.stale_while_revalidate # 0
                     THEN <<SwrEq \o Digits(c.stale_while_revalidate)>> ELSE <<>>)
                 \o (IF c.stale_if_error # 0
                     THEN <<SieEq \o Digits(c.stale_if_error)>> ELSE <<>>)
    IN Join(parts, CommaSpace)

\* lines 22-25: the context names under which the entity is looked for
ContextNames == {"object", "post"}

\* FastlySurrogateKeyMiddleware.process_template_response: the response's
\* headers as the handler leaves them
ProcessTemplateResponse(c, context_key, obj, headers) ==
    IF context_key \notin ContextNames THEN headers
    ELSE IF ~c.enabled THEN headers
    ELSE LET keys == BuildSurrogateKeys(obj, c)
             h1 == IF keys # <<>>
                   THEN SetHeader(headers, "Surrogate-Key", Join(keys, Space))
                   ELSE headers
             h2 == IF c.default_ttl # 0
                   THEN SetHeader(h1, "Surrogate-Control", SurrogateControl(c))
                   ELSE h1
             cache_ttl == IF c.cache_ttl # 0 THEN c.cache_ttl ELSE c.default_ttl
         IN IF cache_ttl # 0
            THEN SetDefault(h2, "Cache-Control", PublicMaxAgeEq \o Digits(cache_ttl))
            ELSE h2

\* re.match on the fragment of the regex language the configured patterns
\* use: literal characters, "\c" for the character c, "." for any character
\* but a line break, a trailing "?" for an optional item, a leading "^".
\* A "(" that is never closed, a ")" , "*", "+" or "?" where an item must
\* start and a "\" at the end are the patterns re.compile rejects.
RECURSIVE ParsePattern(_)
ParsePattern(t) ==
    IF t = <<>> THEN [ok |-> TRUE, items |-> <<>>]
    ELSE LET c == Head(t)
             escaped == c = 92
             bad == \/ c \in {40, 41, 42, 43, 63}
                    \/ escaped /\ Len(t) = 1
             after == SubSeq(t, IF escaped THEN 3 ELSE 2, Len(t))
             opt == after # <<>> /\ Head(after) = 63
             rest == ParsePattern(IF opt THEN Tail(after) ELSE after)
             item == [any |-> ~escaped /\ c = 46,
                      ch |-> IF escaped THEN t[2] ELSE c, opt |-> opt]
         IN IF bad THEN [ok |-> FALSE, items |-> <<>>]
            ELSE IF ~rest.ok THEN rest
            ELSE [ok |-> TRUE, items |-> <<item>> \o rest.items]

RECURSIVE MatchItems(_, _)
MatchItems(items, s) ==
    IF items = <<>> THEN TRUE
    ELSE LET it == Head(items)
         IN \/ /\ s # <<>>
               /\ IF it.any THEN Head(s) # 10 ELSE Head(s) = it.ch
               /\ MatchItems(Tail(items), Tail(s))
            \/ it.opt /\ MatchItems(Tail(items), s)

\* re.match(pattern, s): raised stands for re.error
ReMatch(pattern, s) ==
    LET body == IF pattern # <<>> /\ Head(pattern) = 94 THEN Tail(pattern) ELSE pattern
        parsed == ParsePattern(body)
    IN IF ~parsed.ok THEN [raised |-> TRUE, matched |-> FALSE]
       ELSE [raised |-> FALSE, matched |-> MatchItems(parsed.items, s)]

\* a check that takes an Allow-Origin header alone for "already set"
CorsHeadersPresentOriginOnly(h) == HasHeader(h, "Access-Control-Allow-Origin")

\* lines 74-78
CorsHeadersPresent(h) ==
    \/ HasHeader(h, "Access-Control-Allow-Origin")
    \/ HasHeader(h, "Access-Control-Allow-Methods")
    \/ HasHeader(h, "Access-Control-Allow-Headers")

\* a resolution that matches whatever the configured regex, the empty one too
AllowedOriginAnyRegex(module, origin) ==
    IF module.origin_mode = "anyone" THEN Star
    ELSE IF module.origin_mode = "regex-match"
    THEN LET m == ReMatch(HttpPattern \o module.allowed_origins_regex, origin)
         IN IF ~m.raised /\ m.matched THEN origin ELSE <<>>
    ELSE <<>>

\* lines 81-100: the value for Access-Control-Allow-Origin, <<>> for None
AllowedOrigin(module, origin) ==
    IF module.origin_mode = "anyone" THEN Star
    ELSE IF module.origin_mode = "regex-match" /\ module.allowed_origins_regex # <<>>
    THEN LET m == ReMatch(HttpPattern \o module.allowed_origins_regex, origin)
         IN IF ~m.raised /\ m.matched THEN origin ELSE <<>>
    ELSE <<>>

Lower(s) == [i \in 1..Len(s) |-> IF s[i] \in 65..90 THEN s[i] + 32 ELSE s[i]]

RECURSIVE SplitCommaFrom(_, _)
SplitCommaFrom(s, cur) ==
    IF s = <<>> THEN <<cur>>
    ELSE IF Head(s) = 44 THEN <<cur>> \o SplitCommaFrom(Tail(s), <<>>)
    ELSE SplitCommaFrom(Tail(s), Append(cur, Head(s)))

\* the header names a Vary value lists
VaryNames(value) ==
    LET parts == SplitCommaFrom(value, <<>>)
    IN [i \in 1..Len(parts) |-> Strip(parts[i])]

\* django.utils.cache.patch_vary_headers(response, [newheader]): the name is
\* appended unless the response lists it already, whatever the case
PatchVaryHeaders(h, newheader) ==
    LET vary == IF HasHeader(h, "Vary") THEN VaryNames(h["Vary"]) ELSE <<>>
        existing == {Lower(v) : v \in Range(vary)}
        all == IF Lower(newheader) \in existing THEN vary ELSE Append(vary, newheader)
    IN SetHeader(h, "Vary", IF Star \in Range(all) THEN Star ELSE Join(all, CommaSpace))

\* FastlyCorsEdgeModuleMiddleware.process_response: the response's headers as
\* the handler leaves them; origin <<>> stands for a request without Origin
ProcessResponse(module, origin, headers) ==
    IF ~module.enabled THEN headers
    ELSE IF origin = <<>> THEN headers
    ELSE IF CorsHeadersPresent(headers) THEN headers
    ELSE LET allowed_origin == AllowedOrigin(module, origin)
             h1 == SetHeader(headers, "Access-Control-Allow-Origin", allowed_origin)
             h2 == IF module.allowed_methods # <<>>
                   THEN SetHeader(h1, "Access-Control-Allow-Methods", module.allowed_methods)
                   ELSE h1
             h3 == IF module.allowed_headers # <<>>
                   THEN SetHeader(h2, "Access-Control-Allow-Headers", module.allowed_headers)
                   ELSE h2
         IN IF allowed_origin = <<>> THEN headers
            ELSE PatchVaryHeaders(h3, OriginWord)

\* the rows an administrator saves for the header settings: the flag and
\* each of the four durations, zero or not; one row with always-purged keys
HeaderConfigs ==
    {[BaseConfig EXCEPT !.enabled = e, !.default_ttl = d, !.cache_ttl = t,
                        !.stale_while_revalidate = w, !.stale_if_error = x] :
        e \in BOOLEAN, d \in {0, 300}, t \in {0, 60}, w \in {0, 30}, x \in {0, 86400}}
    \cup {[BaseConfig EXCEPT !.always_purged_keys = TextAB]}

\* what the view put into the context: nothing, the post list, or an entity
\* under one of the two names
Contexts ==
    {[key |-> k, obj |-> NoInstance] : k \in {"", "posts"}}
    \cup {[key |-> k, obj |-> e] : k \in ContextNames,
             e \in {i \in Instances : i.has_url}}

\* the template response as the view hands it over
TemplateHeaders == {NoHeaders, SetHeader(NoHeaders, "Cache-Control", NoStore)}

\* the EdgeModuleCors rows: switched off; open to anyone, with and without
\* method and header lists; regex mode with each regex, the empty one too
CorsModules ==
    {NoCors,
     [NoCors EXCEPT !.enabled = TRUE],
     [NoCors EXCEPT !.enabled = TRUE, !.allowed_methods = MethodsDefault,
                    !.allowed_headers = HeadersXToken]}
    \cup {[NoCors EXCEPT !.enabled = TRUE, !.origin_mode = "regex-match",
                         !.allowed_methods = MethodsDefault,
                         !.allowed_origins_regex = r] :
             r \in {<<>>, RegexAB, RegexADotB, RegexOpen, RegexBackslash}}

Origins == {<<>>, OriginHttpsAB, OriginHttpAB, OriginHttpsAxB, OriginHttpsABC,
            OriginHttpsCD, OriginFtpAB}

\* the response as it reaches the CORS middleware
ResponseHeaders ==
    {NoHeaders,
     SetHeader(NoHeaders, "Access-Control-Allow-Origin", OriginHttpsCD),
     SetHeader(NoHeaders, "Access-Control-Allow-Methods", MethodsDefault),
     SetHeader(NoHeaders, "Access-Control-Allow-Headers", HeadersXToken),
     SetHeader(NoHeaders, "Vary", CookieWord),
     SetHeader(NoHeaders, "Vary", VaryLower)}

\* a template response passes FastlySurrogateKeyMiddleware
TemplateResponse(p, context, headers) ==
    /\ pc[p] = "idle"
    /\ kind' = [kind EXCEPT ![p] = "process_template_response"]
    /\ cfg' = [cfg EXCEPT ![p] = config]
    /\ arg' = [arg EXCEPT ![p] = [NoArg EXCEPT !.instance = context.obj,
                   !.context_key = context.key, !.headers = headers]]
    /\ End(p, [Returned EXCEPT !.headers =
                   ProcessTemplateResponse(config, context.key, context.obj, headers)])
    /\ UNCHANGED <<config, ledger, service, loc, trace>>

\* a response passes FastlyCorsEdgeModuleMiddleware; module is the row
\* EdgeModuleCors.get_solo() reads
Response(p, module, origin, headers) ==
    /\ pc[p] = "idle"
    /\ kind' = [kind EXCEPT ![p] = "process_response"]
    /\ arg' = [arg EXCEPT ![p] = [NoArg EXCEPT !.cors = module,
                   !.origin = origin, !.headers = headers]]
    /\ End(p, [Returned EXCEPT !.headers = ProcessResponse(module, origin, headers)])
    /\ UNCHANGED <<config, ledger, service, cfg, loc, trace>>

----------------------------------------------------------------------------
(* Reading a trace *)

IsRequest(e) == e.ev = "request"
IsLedger(e) == e.ev = "ledger"
IsKeyRequest(e) == e.ev = "request" /\ e.api = "purge_key"
IsUrlRequest(e) == e.ev = "request" /\ e.api = "purge_url_path"
IsPurgeRequest(e) == e.ev = "request" /\ e.api \in {"purge_all", "purge_key", "purge_url_path"}
IsKeyEntry(r) == r.method = "key"

Requests(p) == SelectSeq(trace[p], IsRequest)
Targets(reqs) == [i \in 1..Len(reqs) |-> reqs[i].target]
Apis(reqs) == [i \in 1..Len(reqs) |-> reqs[i].api]

\* the entries the ledger gained since the operation of p began
NewEntries(p) == SubSeq(ledger, loc[p].mark + 1, Len(ledger))

IsPrefix(s, t) == Len(s) <= Len(t) /\ SubSeq(t, 1, Len(s)) = s

Done(p, k) == kind[p] = k /\ pc[p] = "done"

\* the exception a failed provider request e produces in the purge client
ErrorOf(e) ==
    IF e.raised THEN TransportError(e.api, e.target)
    ELSE ApiError(e.api, e.target, e.status, 0)

\* the last failed request of a non-empty sequence of requests with a failure
RECURSIVE LastFailed(_)
LastFailed(reqs) ==
    IF ~reqs[Len(reqs)].ok THEN reqs[Len(reqs)]
    ELSE LastFailed(SubSeq(reqs, 1, Len(reqs) - 1))

AnyFailed(reqs) == \E i \in 1..Len(reqs) : ~reqs[i].ok

\* the targets purge_instance is asked to purge: the derived keys in order,
\* then the path
RequestedTargets(p) ==
    (IF arg[p].use_keys THEN loc[p].keys ELSE <<>>)
    \o (IF arg[p].use_url /\ arg[p].instance.has_url
        THEN <<GetAbsoluteUrl(arg[p].instance)>> ELSE <<>>)

----------------------------------------------------------------------------
(* Claims *)

\* C1: with a configured, enabled row with log_purges on and use_keys true,
\* a finished purge_instance has issued exactly one purge_key request per
\* derived key, in order, whatever the earlier answers; the ledger has gained
\* exactly one key entry per key, successful exactly for the keys answered
\* 2xx; and the call raised if any key failed.
C1_OneRequestAndEntryPerKey ==
    \A p \in Procs :
        (Done(p, "purge_instance") /\ IsConfigured(cfg[p]) /\ cfg[p].log_purges
            /\ arg[p].use_keys)
        => LET keyReqs == SelectSeq(trace[p], IsKeyRequest)
               keyEntries == SelectSeq(NewEntries(p), IsKeyEntry)
           IN /\ Targets(keyReqs) = loc[p].keys
              /\ Len(keyEntries) = Len(loc[p].keys)
              /\ \A i \in 1..Len(keyEntries) :
                    /\ keyEntries[i].target = loc[p].keys[i]
                    /\ keyEntries[i].success
                         = (~keyReqs[i].raised /\ keyReqs[i].status \in 200..299)
              /\ AnyFailed(keyReqs) => result[p].how = "raise"

\* C2: for an entity with a canonical path, a finished purge_instance that got
\* past the configuration checks has attempted every requested target, the
\* derived keys in order and then the path; it raised if and only if a target
\* failed, and the error is that of the last failed target.
C2_RaisesLastErrorAfterAllTargets ==
    \A p \in Procs :
        (Done(p, "purge_instance") /\ IsConfigured(cfg[p]) /\ arg[p].instance.has_url)
        => LET reqs == Requests(p)
           IN /\ Targets(reqs) = RequestedTargets(p)
              /\ (result[p].how = "raise") = AnyFailed(reqs)
              /\ AnyFailed(reqs) => result[p].err = ErrorOf(LastFailed(reqs))
              /\ ~AnyFailed(reqs) => result[p] = Returned

\* C2 witness: two targets failed, the later one is not the last target, and
\* the call raised
C2_Witness ==
    \E p \in Procs :
        /\ Done(p, "purge_instance") /\ arg[p].instance.has_url
        /\ result[p].how = "raise"
        /\ LET reqs == Requests(p)
           IN /\ Len(reqs) = 4
              /\ ~reqs[1].ok /\ ~reqs[2].ok /\ reqs[3].ok /\ reqs[4].ok
              /\ reqs[1].status # reqs[2].status

\* C3: with enabled false, purge_instance makes no provider request, no
\* webhook POST and no ledger write, and returns without raising, for every
\* entity and every use_keys/use_url.
C3_DisabledIsNoOp ==
    \A p \in Procs :
        (kind[p] = "purge_instance" /\ ~cfg[p].enabled)
        => /\ pc[p] = "done"
           /\ result[p] = Returned
           /\ trace[p] = <<>>
           /\ NewEntries(p) = <<>>

\* C3 witness: a disabled purge of an entity without a path, path purge asked
C3_Witness ==
    \E p \in Procs :
        /\ Done(p, "purge_instance") /\ ~cfg[p].enabled
        /\ arg[p].use_url /\ arg[p].use_keys /\ ~arg[p].instance.has_url
        /\ cfg[p].api_token # "" /\ cfg[p].service_id # ""

\* C4: with enabled true but api_token or service_id empty, purge_instance
\* returns without raising and without any request, while get_fastly_client
\* on that row raises the configuration error: the admin actions and the
\* command, which call it first, end with that error and no request.
C4_UnconfiguredIsSilent ==
    \A p \in Procs :
        (kind[p] # "idle" /\ cfg[p].enabled
            /\ (cfg[p].api_token = "" \/ cfg[p].service_id = ""))
        => /\ GetFastlyClient(cfg[p]) = ConfigError
           /\ trace[p] = <<>> /\ NewEntries(p) = <<>>
           /\ pc[p] = "done"
           /\ kind[p] = "purge_instance" => result[p] = Returned
           /\ kind[p] \in {"test_connection", "validate_active_vcl"}
                => result[p] = Message("error", ConfigError)
           /\ kind[p] = "fastly_update_vcl"
                => result[p] = Raised(CommandError(ConfigError))

\* C4 witness: a purge of a full entity on a row with an empty token returned
C4_Witness ==
    \E p \in Procs :
        /\ Done(p, "purge_instance") /\ cfg[p].enabled /\ cfg[p].api_token = ""
        /\ cfg[p].service_id # ""
        /\ arg[p].use_keys /\ arg[p].use_url /\ arg[p].instance.has_url
        /\ result[p] = Returned

\* C5: an operation issues a request to the provider only if the row it read
\* when it began is enabled and has a token and a service id.
C5_RequestsOnlyWhenConfigured ==
    \A p \in Procs :
        (\E i \in 1..Len(trace[p]) : trace[p][i].ev = "request")
        => (cfg[p].enabled /\ cfg[p].api_token # "" /\ cfg[p].service_id # "")

\* C5 witness: a purge-all that is allowed, on a row without a service id,
\* has ended without a request
C5_Witness ==
    \E p \in Procs :
        /\ Done(p, "purge_all_cache") /\ cfg[p].allow_full_cache_purges
        /\ cfg[p].enabled /\ cfg[p].api_token # "" /\ cfg[p].service_id = ""
        /\ trace[p] = <<>>

\* C6: with use_url true on a configured row, purge_instance on an entity
\* without get_absolute_url fails with the misconfigured-entity error and
\* issues no purge-by-path request; on an entity with one it issues exactly
\* one purge_url_path request, for that path.
C6_PathPurge ==
    \A p \in Procs :
        (Done(p, "purge_instance") /\ IsConfigured(cfg[p]) /\ arg[p].use_url)
        => LET urlReqs == SelectSeq(trace[p], IsUrlRequest)
           IN IF arg[p].instance.has_url
              THEN Targets(urlReqs) = <<GetAbsoluteUrl(arg[p].instance)>>
              ELSE urlReqs = <<>> /\ result[p] = Raised(MisconfiguredEntity)

\* C6 witness: the misconfigured-entity error after the keys were purged
C6_Witness ==
    \E p \in Procs :
        /\ Done(p, "purge_instance") /\ ~arg[p].instance.has_url /\ arg[p].use_url
        /\ result[p] = Raised(MisconfiguredEntity)
        /\ Len(Requests(p)) = 3

\* the ledger entry that belongs to the answered purge request e
EntryFor(e) ==
    [method |-> CASE e.api = "purge_all" -> "all"
                  [] e.api = "purge_key" -> "key"
                  [] e.api = "purge_url_path" -> "url",
     target |-> e.target,
     success |-> e.status \in 200..299,
     response_status |-> e.status]

\* the answered purge requests of p, in order
AnsweredPurges(p) ==
    LET Answered(e) == IsPurgeRequest(e) /\ ~e.raised
    IN SelectSeq(trace[p], Answered)

\* C7: every purge_all, purge_key and purge_url_path call that got a response
\* appends exactly one ledger entry when log_purges is true and none when it
\* is false; the entry names the call (all/"*", key/<key>, url/<path>), its
\* success flag says whether the response was 2xx, its status is the
\* response's.
C7_OneEntryPerAnsweredPurge ==
    \A p \in Procs :
        kind[p] # "idle"
        => LET answered == AnsweredPurges(p)
           IN /\ NewEntries(p) = IF cfg[p].log_purges
                                 THEN [i \in 1..Len(answered) |-> EntryFor(answered[i])]
                                 ELSE <<>>
              /\ \A i \in 1..Len(trace[p]) :
                    (IsPurgeRequest(trace[p][i]) /\ ~trace[p][i].raised /\ cfg[p].log_purges)
                    => /\ i < Len(trace[p])
                       /\ trace[p][i + 1] = LedgerEvent(EntryFor(trace[p][i]))
              /\ \A i \in 1..Len(trace[p]) :
                    IsLedger(trace[p][i])
                    => /\ cfg[p].log_purges /\ i > 1
                       /\ IsPurgeRequest(trace[p][i - 1]) /\ ~trace[p][i - 1].raised
              /\ \A i \in 1..Len(answered) :
                    answered[i].api = "purge_all" => answered[i].target = Star

\* C7 witness: a logged failed purge-all, and (elsewhere) an unlogged key purge
C7_Witness ==
    \E p \in Procs :
        /\ Done(p, "purge_all_cache") /\ cfg[p].log_purges
        /\ NewEntries(p) = <<[method |-> "all", target |-> Star, success |-> FALSE,
                              response_status |-> 500]>>

IsWebhook(e) == e.ev = "webhook"

\* what purge_instance must end with, given the provider's answers alone
ExpectedPurgeResult(p) ==
    LET reqs == Requests(p)
    IN IF arg[p].use_url /\ ~arg[p].instance.has_url THEN Raised(MisconfiguredEntity)
       ELSE IF AnyFailed(reqs) THEN Raised(ErrorOf(LastFailed(reqs)))
       ELSE Returned

\* what the purge-all action must end with, given the provider's answer alone
ExpectedPurgeAllResult(p) ==
    LET e == Requests(p)[1]
    IN IF e.raised THEN Raised(ErrorOf(e))
       ELSE IF ~e.ok THEN Message("error", ErrorOf(e))
       ELSE Message("warning", NoError)

\* C8: the webhook never influences the purge path.  A webhook POST is made
\* only when webhook_active is true and a webhook URL is set; and whatever
\* the webhook answers, the targets a finished purge has attempted, the
\* ledger entries it wrote and its result are those fixed by the arguments
\* and the provider's answers.
C8_WebhookNeverInfluencesPurge ==
    \A p \in Procs :
        /\ (\E i \in 1..Len(trace[p]) : IsWebhook(trace[p][i]))
             => (cfg[p].webhook_active /\ cfg[p].webhook_url # "")
        /\ (Done(p, "purge_instance") /\ IsConfigured(cfg[p]))
             => /\ Targets(Requests(p)) = RequestedTargets(p)
                /\ result[p] = ExpectedPurgeResult(p)
        /\ (Done(p, "purge_all_cache") /\ Requests(p) # <<>>)
             => result[p] = ExpectedPurgeAllResult(p)
        /\ (kind[p] # "idle" /\ cfg[p].log_purges)
             => Len(NewEntries(p)) = Len(AnsweredPurges(p))

\* C8 witness: four purges answered 2xx, the last webhook POST raised, and
\* purge_instance returned
C8_Witness ==
    \E p \in Procs :
        /\ Done(p, "purge_instance")
        /\ loc[p].hook.raised
        /\ Len(SelectSeq(trace[p], IsWebhook)) = 4
        /\ Len(Requests(p)) = 4
        /\ result[p] = Returned

StepSucceeded(e) ==
    CASE e.api \in {"service_detail", "clone"} -> e.ok /\ e.body = "ok"
      [] e.api = "probe" -> ~e.raised /\ (e.status = 404 \/ e.ok)
      [] OTHER -> e.ok

\* the requests of a complete apply_cors_vcl, upsert being create or update
Plan(a, upsert) ==
    <<"service_detail">> \o (IF a.autoclone THEN <<"clone">> ELSE <<>>)
    \o <<"probe", upsert, "validate">> \o (IF a.activate THEN <<"activate">> ELSE <<>>)

\* C10: the requests of an apply_cors_vcl occur in the order service detail,
\* clone (only with autoclone), probe, create or update, validate, activate
\* (only when requested); a request is issued only if every earlier step
\* succeeded, and a failed step ends the execution with an error.
C10_DeployStepsInOrder ==
    \A p \in Procs :
        kind[p] = "apply_cors_vcl"
        => LET reqs == Requests(p)
           IN /\ \E u \in {"create", "update"} : IsPrefix(Apis(reqs), Plan(arg[p], u))
              /\ \A i \in 1..Len(reqs) :
                    ~StepSucceeded(reqs[i])
                    => i = Len(reqs) /\ pc[p] = "done" /\ result[p].how = "raise"
              /\ (pc[p] = "done" /\ result[p].how = "return")
                    => \E u \in {"create", "update"} : Apis(reqs) = Plan(arg[p], u)

\* C10 witness: with autoclone and activate requested, the validation failed
\* and the execution ended after five requests
C10_Witness ==
    \E p \in Procs :
        /\ Done(p, "apply_cors_vcl") /\ arg[p].autoclone /\ arg[p].activate
        /\ result[p].how = "raise"
        /\ Apis(Requests(p)) = Plan([arg[p] EXCEPT !.activate = FALSE], "create")
        /\ Requests(p)[5].status = 400

\* the requests of p that address a version of the service
IsVersionRequest(e) ==
    e.ev = "request" /\ e.api \in {"probe", "create", "update", "validate", "activate"}

\* C11: apply_cors_vcl on a module whose enabled flag is false fails with the
\* module-disabled error and issues no request at all.
C11_DisabledModuleNoRequest ==
    \A p \in Procs :
        (kind[p] = "apply_cors_vcl" /\ IsConfigured(cfg[p]) /\ ~arg[p].module.enabled)
        => /\ pc[p] = "done"
           /\ result[p] = Raised(ModuleDisabled)
           /\ trace[p] = <<>>

\* C11 witness: a disabled module was applied with autoclone and activate
C11_Witness ==
    \E p \in Procs :
        /\ Done(p, "apply_cors_vcl") /\ IsConfigured(cfg[p])
        /\ ~arg[p].module.enabled /\ arg[p].autoclone /\ arg[p].activate
        /\ result[p] = Raised(ModuleDisabled)

\* the version an apply_cors_vcl of the one deploying process must work on:
\* the clone the provider made for it, the latest version, with autoclone,
\* and the active version without
TargetVersion(p) == IF arg[p].autoclone THEN service.last ELSE service.active

\* C12: the target version of an apply_cors_vcl is the number the clone
\* returned with autoclone and the active version without; the probe, the
\* create or update, the validate and the activate request address that
\* version, and the version returned on success is the target version.
C12_TargetVersion ==
    \A p \in Procs :
        kind[p] = "apply_cors_vcl"
        => LET reqs == Requests(p)
           IN /\ \A i \in 1..Len(reqs) :
                    IsVersionRequest(reqs[i]) => reqs[i].version = TargetVersion(p)
              /\ (pc[p] = "done" /\ result[p].how = "return")
                    => result[p].version = TargetVersion(p)

\* C12 witness: a deploy with autoclone on a service whose active version is
\* not its latest returned the number of the new clone
C12_Witness ==
    \E p \in Procs :
        /\ Done(p, "apply_cors_vcl") /\ arg[p].autoclone
        /\ result[p].how = "return" /\ result[p].version = 3
        /\ service.active = 1
        /\ Len(SelectSeq(trace[p], IsVersionRequest)) = 3

\* C13: what follows the snippet probe is decided by the probe's status
\* alone: after a 404 the next request is a create whose payload carries the
\* name, after a 2xx it is an update without a name field, and after any
\* other status the execution ends with the fetch error and neither a create
\* nor an update.
C13_ProbeDecides ==
    \A p \in Procs :
        kind[p] = "apply_cors_vcl"
        => LET reqs == Requests(p)
           IN \A i \in 1..Len(reqs) :
                (reqs[i].api = "probe" /\ ~reqs[i].raised)
                => IF reqs[i].status = 404
                   THEN \/ i = Len(reqs) /\ pc[p] = "create"
                        \/ /\ i < Len(reqs) /\ reqs[i + 1].api = "create"
                           /\ reqs[i + 1].name = SnippetName
                   ELSE IF reqs[i].status \in 200..299
                   THEN \/ i = Len(reqs) /\ pc[p] = "update"
                        \/ /\ i < Len(reqs) /\ reqs[i + 1].api = "update"
                           /\ reqs[i + 1].name = ""
                   ELSE /\ i = Len(reqs) /\ pc[p] = "done"
                        /\ result[p] = Raised(ApiError("probe", <<>>, reqs[i].status, 0))

\* C14: an activate request for version v is issued only if activate was
\* requested and the validate request for v, the request before it, succeeded;
\* a failed validation ends the execution with an error and without an
\* activate request; the activated flag returned is true exactly when an
\* activate request was issued and succeeded.
C14_ActivateOnlyAfterValidation ==
    \A p \in Procs :
        kind[p] = "apply_cors_vcl"
        => LET reqs == Requests(p)
           IN /\ \A i \in 1..Len(reqs) :
                    reqs[i].api = "activate"
                    => /\ arg[p].activate /\ i > 1
                       /\ reqs[i - 1].api = "validate" /\ reqs[i - 1].ok
                       /\ reqs[i - 1].version = reqs[i].version
              /\ \A i \in 1..Len(reqs) :
                    (reqs[i].api = "validate" /\ ~reqs[i].ok)
                    => /\ i = Len(reqs) /\ pc[p] = "done"
                       /\ result[p].how = "raise" /\ ~result[p].activated
              /\ (pc[p] = "done" /\ result[p].how = "return")
                    => result[p].activated
                         = (\E i \in 1..Len(reqs) : reqs[i].api = "activate" /\ reqs[i].ok)
              /\ (pc[p] = "done" /\ result[p].how = "raise") => ~result[p].activated

\* C14 witness: a deploy without autoclone validated and activated the active
\* version and returned the flag
C14_Witness ==
    \E p \in Procs :
        /\ Done(p, "apply_cors_vcl") /\ arg[p].activate /\ ~arg[p].autoclone
        /\ result[p].how = "return" /\ result[p].activated
        /\ LET reqs == Requests(p)
           IN /\ Len(reqs) = 5
              /\ reqs[4].api = "validate" /\ reqs[5].api = "activate" /\ reqs[5].ok

\* whether the execution of p has cloned a version and got its number
HasCloned(p) ==
    \E i \in 1..Len(trace[p]) :
        trace[p][i].ev = "request" /\ trace[p][i].api = "clone" /\ StepSucceeded(trace[p][i])

\* C15: when apply_cors_vcl has cloned a new version and a later step (render,
\* probe, create or update, validate, activate) fails, the error raised
\* carries the number of the new version.
C15_ErrorCarriesClonedVersion ==
    \A p \in Procs :
        (Done(p, "apply_cors_vcl") /\ result[p].how = "raise" /\ HasCloned(p))
        => result[p].err.version = service.last

\* the one snippet an application of the module of p leaves on version v
Applied(p, v) == {Snippet(v, SnippetName, RenderVclSnippet(arg[p].module))}

\* the step in which p, applying without autoclone, issues its create or
\* update request: it is a create exactly when the version has no snippet of
\* the name yet, the create carries the fixed name, and a request that
\* succeeds leaves exactly one snippet of the name, with the module's content
UpsertStep(p) ==
    (kind[p] = "apply_cors_vcl" /\ ~arg[p].autoclone
        /\ pc[p] \in {"create", "update"} /\ pc'[p] # pc[p])
    => LET e == trace'[p][Len(trace'[p])]
           v == e.version
       IN /\ (e.api = "create") = (Named(service, v, SnippetName) = {})
          /\ e.api = "create" => e.name = SnippetName
          /\ e.ok => Named(service', v, SnippetName) = Applied(p, v)

\* C16: re-application on a fixed version is idempotent: applying with
\* autoclone false any number of times always uses the name cors_headers,
\* creates the snippet on the first application and updates it on the later
\* ones, and leaves the version with exactly one snippet of that name, whose
\* content is that of a single application.
C16_ReapplicationIdempotent ==
    /\ [](\A sn \in service.snippets : sn.name = SnippetName)
    /\ [](\A p \in Procs :
            (Done(p, "apply_cors_vcl") /\ ~arg[p].autoclone /\ result[p].how = "return")
            => Named(service, result[p].version, SnippetName)
                 = Applied(p, result[p].version))
    /\ [][\A p \in Procs : UpsertStep(p)]_vars

\* C16 witness: a second application, with another content, has updated the
\* snippet of version 1, which is the only one of its name
C16_Witness ==
    \E p \in Procs :
        /\ Done(p, "apply_cors_vcl") /\ ~arg[p].autoclone /\ result[p].how = "return"
        /\ arg[p].module.content = "vcl_b"
        /\ Requests(p)[3].api = "update"
        /\ service.snippets = {Snippet(1, SnippetName, "vcl_b")}

\* C17: every save and every delete of a post, whatever its status, invokes
\* purge_instance for it: on a configured site the handler has, when it ends,
\* requested the purge of every key of the post and of its path.
C17_EverySaveAndDeletePurges ==
    \A p \in Procs :
        (pc[p] = "done" /\ kind[p] \in {"post_save", "post_delete"}
            /\ IsConfigured(cfg[p]))
        => Targets(Requests(p))
             = BuildSurrogateKeys(arg[p].instance, config)
               \o <<GetAbsoluteUrl(arg[p].instance)>>

C19_PurgeAllGated ==
    \A p \in Procs :
        kind[p] = "purge_all_cache"
        => /\ (\E i \in 1..Len(trace[p]) : trace[p][i].api \in {"purge_all", "all"})
                => cfg[p].allow_full_cache_purges
           /\ ~cfg[p].allow_full_cache_purges
                => /\ trace[p] = <<>> /\ NewEntries(p) = <<>>
                   /\ pc[p] = "done"
                   /\ result[p] = Message("error", FullPurgesDisabled)

\* C19 witness: on a configured row with logging on but full purges off,
\* the action has ended with its message
C19_Witness ==
    \E p \in Procs :
        /\ Done(p, "purge_all_cache") /\ IsConfigured(cfg[p])
        /\ ~cfg[p].allow_full_cache_purges /\ cfg[p].log_purges
        /\ result[p] = Message("error", FullPurgesDisabled)

\* the three actions of FastlyConfigAdmin
AdminActions == {"test_connection", "purge_all_cache", "validate_active_vcl"}

\* C20: each of the three admin actions ends by showing one success or error
\* message and lets no exception escape, whatever the provider does: 2xx,
\* non-2xx, malformed or missing data, no response.
C20_AdminActionsReport ==
    \A p \in Procs :
        (pc[p] = "done" /\ kind[p] \in AdminActions)
        => /\ result[p].how = "return"
           /\ result[p].msg \in {"success", "warning", "error"}

\* a key derivation has returned in process p
KeysDerived(p) == kind[p] = "build_surrogate_keys" /\ pc[p] = "done"

PkKey(e) == e.label \o Colon \o Digits(e.pk)
SlugKey(e) == e.label \o Colon \o SlugWord \o Colon \o e.slug
AlwaysLines(c) == Range(StrippedLines(c.always_purged_keys))
NoDuplicates(ks) == \A i, j \in 1..Len(ks) : i # j => ks[i] # ks[j]

TypedLines(c) ==
    {l \in Range(SplitLines(c.always_purged_keys)) : Strip(l) # <<>>}

\* C22: the derivation is deterministic and order-independent: two calls for
\* the same entity under rows whose always-purged texts hold the same
\* non-blank lines, in any order, repeated any number of times and with blank
\* lines anywhere between them, return the same result.
C22_OrderIndependent ==
    \A p, q \in Procs :
        ( /\ KeysDerived(p) /\ KeysDerived(q)
          /\ arg[p].instance = arg[q].instance
          /\ TypedLines(cfg[p]) = TypedLines(cfg[q]) )
        => loc[p].keys = loc[q].keys

\* the same entity derived under "b\na" and under "a\n\nb\na"
C22_Witness ==
    /\ KeysDerived("p1") /\ KeysDerived("p2")
    /\ arg["p1"].instance = arg["p2"].instance
    /\ arg["p1"].instance.pk # 0
    /\ cfg["p1"].always_purged_keys = TextBA
    /\ cfg["p2"].always_purged_keys = TextABlankBA
    /\ Len(loc["p1"].keys) >= 4

\* a response has passed the CORS middleware in process p
CorsDone(p) == kind[p] = "process_response" /\ pc[p] = "done"

\* the case C23 is about: module enabled, Origin sent, no CORS header yet
CorsDecides(p) ==
    /\ CorsDone(p)
    /\ arg[p].cors.enabled
    /\ arg[p].origin # <<>>
    /\ DOMAIN arg[p].headers \cap {"Access-Control-Allow-Origin",
           "Access-Control-Allow-Methods", "Access-Control-Allow-Headers"} = {}

\* "^https?://<regex>" matches the origin; a pattern re rejects matches nothing
PatternMatches(module, origin) ==
    LET m == ReMatch(HttpPattern \o module.allowed_origins_regex, origin)
    IN ~m.raised /\ m.matched

\* the response of process p when its origin is allowed with value v, and
\* when it is not
CorsOutcome(p, allowed, v) ==
    LET in == arg[p].headers
        out == result[p].headers
        module == arg[p].cors
        named == IF HasHeader(out, "Vary") THEN VaryNames(out["Vary"]) ELSE <<>>
        before == IF HasHeader(in, "Vary") THEN VaryNames(in["Vary"]) ELSE <<>>
    IN /\ result[p].how = "return"
       /\ IF allowed
          THEN /\ HasHeader(out, "Access-Control-Allow-Origin")
               /\ out["Access-Control-Allow-Origin"] = v
               /\ module.allowed_methods # <<>> =>
                    /\ HasHeader(out, "Access-Control-Allow-Methods")
                    /\ out["Access-Control-Allow-Methods"] = module.allowed_methods
               /\ module.allowed_headers # <<>> =>
                    /\ HasHeader(out, "Access-Control-Allow-Headers")
                    /\ out["Access-Control-Allow-Headers"] = module.allowed_headers
               /\ Lower(OriginWord) \in {Lower(n) : n \in Range(named)}
               /\ Range(before) \subseteq Range(named)
          ELSE out = in

\* C23 as stated: with the module enabled, an Origin sent and no CORS header
\* on the response, "anyone" mode answers "*" to every origin and regex mode
\* allows the origin exactly when "^https?://<regex>" matches it (an invalid
\* regex matching nothing, without an exception); an allowed origin gets the
\* configured methods and headers and "Origin" in Vary, a refused one leaves
\* the response as it was.
C23_AllowedIffPatternMatches ==
    \A p \in Procs : CorsDecides(p) =>
        LET module == arg[p].cors
        IN IF module.origin_mode = "anyone"
           THEN CorsOutcome(p, TRUE, Star)
           ELSE CorsOutcome(p, PatternMatches(module, arg[p].origin), arg[p].origin)

\* C23 (amended): as stated, except that regex mode allows the origin exactly
\* when a regex is configured (not empty) and "^https?://<regex>" matches it.
C23_AllowedIffRegexSetAndMatches ==
    \A p \in Procs : CorsDecides(p) =>
        LET module == arg[p].cors
        IN IF module.origin_mode = "anyone"
           THEN CorsOutcome(p, TRUE, Star)
           ELSE CorsOutcome(p, /\ module.allowed_origins_regex # <<>>
                               /\ PatternMatches(module, arg[p].origin),
                            arg[p].origin)

\* regex mode has allowed https://a.b under the regex a\.b on a response that
\* varied on Cookie
C23_Witness ==
    \E p \in Procs :
        /\ CorsDecides(p)
        /\ arg[p].cors.origin_mode = "regex-match"
        /\ arg[p].cors.allowed_origins_regex = RegexAB
        /\ arg[p].origin = OriginHttpsAB
        /\ arg[p].headers = SetHeader(NoHeaders, "Vary", CookieWord)
        /\ result[p].headers["Access-Control-Allow-Origin"] = OriginHttpsAB
        /\ result[p].headers["Vary"] = CookieWord \o CommaSpace \o OriginWord

\* C24: the CORS middleware hands the response back with its headers exactly
\* as they were when the module is disabled, when the request has no Origin,
\* or when the response already has one of the three Access-Control-Allow
\* headers.
C24_CorsLeavesResponseAlone ==
    \A p \in Procs :
        ( /\ CorsDone(p)
          /\ \/ ~arg[p].cors.enabled
             \/ arg[p].origin = <<>>
             \/ HasHeader(arg[p].headers, "Access-Control-Allow-Origin")
             \/ HasHeader(arg[p].headers, "Access-Control-Allow-Methods")
             \/ HasHeader(arg[p].headers, "Access-Control-Allow-Headers") )
        => result[p].headers = arg[p].headers

\* an enabled module open to anyone met a request with Origin and a response
\* that had Access-Control-Allow-Methods alone
C24_Witness ==
    \E p \in Procs :
        /\ CorsDone(p)
        /\ arg[p].cors.enabled
        /\ arg[p].cors.origin_mode = "anyone"
        /\ arg[p].origin = OriginHttpsAB
        /\ DOMAIN arg[p].headers = {"Access-Control-Allow-Methods"}
        /\ result[p].headers = arg[p].headers

\* a template response has passed the surrogate-key middleware in process p
TemplateDone(p) == kind[p] = "process_template_response" /\ pc[p] = "done"

\* the response renders an entity
RendersEntity(p) == arg[p].context_key \in {"object", "post"}

\* the Cache-Control the settings of row c call for, <<>> for none
CacheControlFor(c) ==
    LET ttl == IF c.cache_ttl = 0 THEN c.default_ttl ELSE c.cache_ttl
    IN IF ttl = 0 THEN <<>> ELSE PublicMaxAgeEq \o Digits(ttl)

\* Cache-Control after the middleware, given whether it is to add its own
CacheControlOutcome(p, adds) ==
    LET in == arg[p].headers
        out == result[p].headers
        want == CacheControlFor(cfg[p])
    IN IF HasHeader(in, "Cache-Control")
       THEN HasHeader(out, "Cache-Control") /\ out["Cache-Control"] = in["Cache-Control"]
       ELSE IF adds /\ want # <<>>
       THEN HasHeader(out, "Cache-Control") /\ out["Cache-Control"] = want
       ELSE ~HasHeader(out, "Cache-Control")

\* C25 as stated: an existing Cache-Control is never overwritten; a response
\* without one gets "public, max-age=<cacheTtl>", with defaultTtl in place of
\* a zero cacheTtl, and none when both are zero.
C25_CacheControlDefault ==
    \A p \in Procs : TemplateDone(p) => CacheControlOutcome(p, TRUE)

\* C25 (amended): an existing Cache-Control is never overwritten; a response
\* without one gets "public, max-age=<cacheTtl>", with defaultTtl in place of
\* a zero cacheTtl, when the integration is enabled and the response renders
\* an entity, and gets none when both durations are zero, when the integration
\* is disabled or when no entity is rendered.
C25_CacheControlDefaultWhenEnabled ==
    \A p \in Procs : TemplateDone(p) =>
        CacheControlOutcome(p, cfg[p].enabled /\ RendersEntity(p))

\* with cacheTtl 0 and defaultTtl 300 a response without Cache-Control got
\* "public, max-age=300", and one with "no-store" can keep it
C25_Witness ==
    \E p \in Procs :
        /\ TemplateDone(p)
        /\ cfg[p].enabled /\ RendersEntity(p)
        /\ cfg[p].cache_ttl = 0 /\ cfg[p].default_ttl = 300
        /\ ~HasHeader(arg[p].headers, "Cache-Control")
        /\ result[p].headers["Cache-Control"] = PublicMaxAgeEq \o <<51, 48, 48>>

\* the Surrogate-Control the settings of row c call for
SurrogateControlFor(c) ==
    MaxAgeEq \o Digits(c.default_ttl)
    \o (IF c.stale_while_revalidate # 0
        THEN CommaSpace \o SwrEq \o Digits(c.stale_while_revalidate) ELSE <<>>)
    \o (IF c.stale_if_error # 0
        THEN CommaSpace \o SieEq \o Digits(c.stale_if_error) ELSE <<>>)

\* Surrogate-Key and Surrogate-Control after the middleware, given whether it
\* is to set them
SurrogateOutcome(p, sets) ==
    LET out == result[p].headers
        c == cfg[p]
    IN /\ sets => /\ HasHeader(out, "Surrogate-Key")
                  /\ out["Surrogate-Key"] =
                       Join(BuildSurrogateKeys(arg[p].instance, c), Space)
       /\ HasHeader(out, "Surrogate-Control") <=> (sets /\ c.default_ttl > 0)
       /\ HasHeader(out, "Surrogate-Control") =>
            out["Surrogate-Control"] = SurrogateControlFor(c)

FollowUp(p, i) ==
    LET t == trace[p]
        later == {j \in (i + 1)..Len(t) : IsRequest(t[j])}
        stop == IF later = {} THEN Len(t) + 1
                ELSE CHOOSE j \in later : \A k \in later : j <= k
    IN SubSeq(t, i + 1, stop - 1)

\* C27: every purge call attempts the ledger write and the webhook
\* notification whatever became of its provider request, a timeout or a
\* transport failure included, and reports the failure only after them: each
\* purge request is followed by the ledger append (when log_purges is on) and
\* then the webhook POST (when a webhook is configured and active).
C27_LogAndNotifyWhateverTheOutcome ==
    \A p \in Procs :
        \A i \in 1..Len(trace[p]) :
            IsPurgeRequest(trace[p][i])
            => LET after == FollowUp(p, i)
                   logged == cfg[p].log_purges
                   posted == cfg[p].webhook_url # "" /\ cfg[p].webhook_active
                   n == (IF logged THEN 1 ELSE 0) + (IF posted THEN 1 ELSE 0)
               IN /\ Len(after) = n
                  /\ logged => IsLedger(after[1])
                  /\ posted => IsWebhook(after[n])

\* C27 for the calls the provider answered: the order request, ledger append,
\* webhook POST holds whenever a response came back, ok or not
C27_AnsweredCallsLogAndNotify ==
    \A p \in Procs :
        \A i \in 1..Len(trace[p]) :
            (IsPurgeRequest(trace[p][i]) /\ ~trace[p][i].raised)
            => LET after == FollowUp(p, i)
                   logged == cfg[p].log_purges
                   posted == cfg[p].webhook_url # "" /\ cfg[p].webhook_active
                   n == (IF logged THEN 1 ELSE 0) + (IF posted THEN 1 ELSE 0)
               IN /\ Len(after) = n
                  /\ logged => IsLedger(after[1])
                  /\ posted => IsWebhook(after[n])

\* the provider has made a clone for the running execution of p, which has
\* read the clone's number from the response
OwnsClone(p) ==
    /\ kind[p] = "apply_cors_vcl" /\ arg[p].autoclone
    /\ \E i \in 1..Len(trace[p]) :
         /\ IsRequest(trace[p][i]) /\ trace[p][i].api = "clone"
         /\ trace[p][i].ok /\ trace[p][i].body = "ok"

\* the versions the probe, create, update, validate and activate requests of
\* p have addressed
AddressedVersions(p) ==
    {trace[p][i].version : i \in {j \in 1..Len(trace[p]) : IsVersionRequest(trace[p][j])}}

\* the number an execution takes for its clone is the fresh one the provider
\* has just handed out, and it keeps it to its end
CloneIsFresh ==
    \A p \in Procs :
        /\ (~OwnsClone(p) /\ OwnsClone(p)')
             => /\ service'.last = service.last + 1
                /\ loc'[p].target_version = service'.last
        /\ (OwnsClone(p) /\ OwnsClone(p)')
             => loc'[p].target_version = loc[p].target_version

\* executions with a clone address their own clone only
OwnCloneOnly ==
    \A p, q \in Procs :
        (p # q /\ OwnsClone(p))
        => /\ AddressedVersions(p) \subseteq {loc[p].target_version}
           /\ loc[p].active_version \notin AddressedVersions(p)
           /\ OwnsClone(q) =>
                /\ loc[p].target_version # loc[q].target_version
                /\ loc[q].target_version \notin AddressedVersions(p)

\* C28: in every interleaving of two apply_cors_vcl executions with autoclone
\* against one service whose provider numbers each clone afresh, the two get
\* different target versions, and each execution's probe, create or update,
\* validate and activate requests address its own clone only: never the
\* other's clone, never the version that was active when it began.
C28_ConcurrentDeploysKeepApart == [][CloneIsFresh]_vars /\ []OwnCloneOnly

\* both executions cloned version 1 while it was active, both deployed and
\* activated their clones
C28_Witness ==
    /\ OwnsClone("p1") /\ OwnsClone("p2")
    /\ loc["p1"].active_version = 1 /\ loc["p2"].active_version = 1
    /\ pc["p1"] = "done" /\ result["p1"].how = "return" /\ result["p1"].activated
    /\ pc["p2"] = "done" /\ result["p2"].how = "return" /\ result["p2"].activated
    /\ result["p1"].version # result["p2"].version

\* the configuration of version v: its snippets
SnippetsOf(svc, v) == {sn \in svc.snippets : sn.version = v}

\* process p takes the step
Steps(p) == pc'[p] # pc[p] \/ trace'[p] # trace[p]

\* the active version changes only in the activate step of an execution
\* whose earlier steps all succeeded, and becomes the version it returns
ActiveMovesOnlyByActivate ==
    service'.active # service.active
    => \E p \in Procs :
         /\ kind[p] = "apply_cors_vcl" /\ pc[p] = "activate" /\ pc'[p] = "done"
         /\ arg[p].activate
         /\ result'[p].how = "return" /\ result'[p].activated
         /\ result'[p].version = service'.active
         /\ \A i \in 1..Len(trace[p]) :
              IsRequest(trace[p][i]) => StepSucceeded(trace[p][i])

\* the step that ends an execution in an error leaves the active version
FailureLeavesActive ==
    \A p \in Procs :
        (kind'[p] = "apply_cors_vcl" /\ pc[p] # "done" /\ pc'[p] = "done"
            /\ result'[p].how = "raise")
        => service'.active = service.active

\* no step of an execution with autoclone touches the configuration of the
\* version that is active
AutocloneSparesActive ==
    \A p \in Procs :
        (kind[p] = "apply_cors_vcl" /\ arg[p].autoclone /\ Steps(p))
        => SnippetsOf(service', service.active) = SnippetsOf(service, service.active)

\* the clone made for an execution that ended in an error is not active
OrphanNeverActive ==
    \A p \in Procs :
        ( /\ Done(p, "apply_cors_vcl") /\ result[p].how = "raise"
          /\ arg[p].autoclone
          /\ \E i \in 1..Len(trace[p]) :
                IsRequest(trace[p][i]) /\ trace[p][i].api = "clone" /\ trace[p][i].ok )
        => service.active # service.last

PathMissingAfterKeys(p) ==
    /\ Done(p, "purge_instance") /\ IsConfigured(cfg[p])
    /\ arg[p].use_keys /\ arg[p].use_url /\ ~arg[p].instance.has_url

\* C30: with use_keys and use_url on an entity without a canonical path,
\* purge_instance looks for the path only after the key phase: when it raises
\* the misconfigured-entity error every derived key has been purged and (with
\* log_purges on) logged, and that error is raised in place of any error
\* collected from the key purges.
C30_KeysPurgedAndLoggedBeforePathError ==
    \A p \in Procs :
        PathMissingAfterKeys(p)
        => /\ Targets(Requests(p)) = loc[p].keys
           /\ \A i \in 1..Len(Requests(p)) : Requests(p)[i].api = "purge_key"
           /\ cfg[p].log_purges
                => [i \in 1..Len(NewEntries(p)) |-> NewEntries(p)[i].target] = loc[p].keys
           /\ result[p] = Raised(MisconfiguredEntity)

\* C30 without the ledger: every derived key has been requested, in order,
\* before the misconfigured-entity error, which replaces the collected errors;
\* the ledger holds the entries of the key requests that were answered
C30_KeysAttemptedBeforePathError ==
    \A p \in Procs :
        PathMissingAfterKeys(p)
        => /\ Targets(Requests(p)) = loc[p].keys
           /\ \A i \in 1..Len(Requests(p)) : Requests(p)[i].api = "purge_key"
           /\ cfg[p].log_purges
                => [i \in 1..Len(NewEntries(p)) |-> NewEntries(p)[i].target]
                     = Targets(AnsweredPurges(p))
           /\ result[p] = Raised(MisconfiguredEntity)

----------------------------------------------------------------------------
(* Specifications *)

\* the site: content changes, admin actions, the command, configuration saves
Next ==
    \/ \E c \in Configs : SaveConfig(c)
    \/ \E p \in Runners : PurgeInstance(p)
    \/ \E p \in Runners : TestConnection(p)
    \/ \E p \in Runners : PurgeAllCache(p)
    \/ \E p \in Runners : ValidateActive(p)
    \/ \E p \in Runners : Return(p)

Spec == Init /\ [][Next]_vars

\* deployments of the CORS snippet
NextDeploy ==
    \/ \E c \in Configs : SaveConfig(c)
    \/ \E p \in Runners : ApplyCorsVcl(p)
    \/ \E p \in Runners : Return(p)

SpecDeploy == Init /\ [][NextDeploy]_vars

\* a configured site on which every operation runs; the snippet is deployed
\* with one content
InitAll == Init /\ config = BaseConfig

NextAll ==
    \/ \E p \in Runners : PurgeInstance(p)
    \/ \E p \in Runners : TestConnection(p)
    \/ \E p \in Runners : PurgeAllCache(p)
    \/ \E p \in Runners : ValidateActive(p)
    \/ \E p \in Runners : ApplyCorsVclOn(p, {m \in Modules : m.content # "vcl_b"})
    \/ \E p \in Runners : Return(p)

SpecAll == InitAll /\ [][NextAll]_vars

\* the blog: posts are saved and deleted, the configuration is saved
NextSignals ==
    \/ \E c \in Configs : SaveConfig(c)
    \/ \E p \in Runners : PostSave(p)
    \/ \E p \in Runners : PostDelete(p)
    \/ \E p \in Runners : PurgeSteps(p)
    \/ \E p \in Runners : Return(p)

SpecSignals == Init /\ [][NextSignals]_vars

\* a configured site whose service has one version and no snippet
InitPlain == Init /\ config = BaseConfig /\ service = [active |-> 1, last |-> 1, snippets |-> {}]

\* key derivations for two callers while the always-purged text is edited
NextKeys ==
    \/ \E text \in KeyTexts : SaveConfigRow([config EXCEPT !.always_purged_keys = text])
    \/ \E p \in Procs, e \in Entities : BuildSurrogateKeysForInstance(p, e)
    \/ \E p \in Procs : Return(p)

SpecKeys == InitPlain /\ [][NextKeys]_vars

\* responses pass the two middlewares while the header settings are edited
NextHeaders ==
    \/ \E c \in HeaderConfigs : SaveConfigRow(c)
    \/ \E p \in Runners, x \in Contexts, h \in TemplateHeaders : TemplateResponse(p, x, h)
    \/ \E p \in Runners, m \in CorsModules, o \in Origins, h \in ResponseHeaders :
           Response(p, m, o, h)
    \/ \E p \in Runners : Return(p)

SpecHeaders == InitPlain /\ [][NextHeaders]_vars

\* two processes deploy the snippet to the same service, each on a clone
RaceModules == {m \in Modules : m.enabled /\ m.renders}

NextRace ==
    \/ \E p \in Procs, m \in RaceModules, act \in BOOLEAN : ApplyStart(p, m, TRUE, act)
    \/ \E p \in Procs : ApplyFetch(p)
    \/ \E p \in Procs : ApplyClone(p)
    \/ \E p \in Procs : ApplyRender(p)
    \/ \E p \in Procs : ApplyProbe(p)
    \/ \E p \in Procs : ApplyCreate(p)
    \/ \E p \in Procs : ApplyUpdate(p)
    \/ \E p \in Procs : ApplyValidate(p)
    \/ \E p \in Procs : ApplyActivate(p)
    \/ \E p \in Procs : Return(p)

SpecRace == InitPlain /\ [][NextRace]_vars

====
